---- MODULE Spec2Model ----
(***************************************************************************)
(* State-machine model of pathfinding3d: the node/grid data model, the     *)
(* 3D neighbourhood, the list based open set of the finders and the        *)
(* finders A*, Dijkstra, BestFirst, BiA*, BreadthFirst, IDA* and           *)
(* MinimumSpanningTree.                                                    *)
(*                                                                         *)
(* Costs are floats in the program.  Here a cost is an integer number of   *)
(* 1/Unit, sqrt(2) and sqrt(3) rounded down to that resolution; float      *)
(* infinity is the integer Infinity, which is only ever compared.          *)
(***************************************************************************)
EXTENDS Integers, Sequences, FiniteSets, TLC

VARIABLES
  nodes,       \* cell -> GridNode record (identity fields and search fields)
  dims,        \* grid_id -> <<width, height, depth>>
  cfg,         \* the finder's configuration and the arguments of find_path
  pc,          \* "idle" | "running" | "returned" | "raised" | "hung"
  runs,        \* Finder.runs
  open_list,   \* the open list of find_path (start_open_list for BiA*)
  end_open_list, \* BiA*: the open list of the backward frontier
  phase,       \* BiA*: which half of the loop body runs next
  ida,         \* IDA*: cutoff, path buffer, call stack, pending call
  result,      \* what the last find_path gave back: a path, or an exception
  fresh,       \* the result of the first find_path, on the fresh grid
  searchNo,    \* number of find_path calls so far
  elapsed,     \* time.time() - start_time at the last budget check
  cleaned,     \* the grids whose cleanup() was called since the last find_path
  lastOp       \* name of the operation that produced this state

vars == <<nodes, dims, cfg, pc, runs, open_list, end_open_list, phase, ida,
          result, fresh, searchNo, elapsed, cleaned, lastOp>>

-----------------------------------------------------------------------------
(* Numbers *)

Unit == 100

Infinity == 2147483647

MAX_RUNS == Infinity

TIME_LIMIT == Infinity

BY_START == 1

BY_END == 2

Abs(n) == IF n < 0 THEN 0 - n ELSE n

Max2(a, b) == IF a >= b THEN a ELSE b

Min2(a, b) == IF a <= b THEN a ELSE b

Max3(a, b, c) == Max2(a, Max2(b, c))

Min3(a, b, c) == Min2(a, Min2(b, c))

\* F applied to the value of e, which is computed once
Let(e, F(_)) == CHOOSE y \in {F(v) : v \in {e}} : TRUE

\* math.sqrt(n), in 1/Unit, rounded down
ISqrt(n) == CHOOSE r \in 0..(Unit * n) : r * r <= n * Unit * Unit /\ (r + 1) * (r + 1) > n * Unit * Unit

\* the largest dx*dx + dy*dy + dz*dz between two cells of a grid of the model
MaxSquaredDistance == 12

SqrtTable == [n \in 0..MaxSquaredDistance |-> ISqrt(n)]

SQRT2 == SqrtTable[2]

SQRT3 == SqrtTable[3]

SQRT2_MINUS_1 == SQRT2 - Unit

SQRT3_MINUS_SQRT2 == SQRT3 - SQRT2

-----------------------------------------------------------------------------
(* Diagonal movement policies *)

DiagonalMovement == [always |-> "always", never |-> "never",
                     if_at_most_one_obstacle |-> "if_at_most_one_obstacle",
                     only_when_no_obstacle |-> "only_when_no_obstacle"]

Policies == {DiagonalMovement.always, DiagonalMovement.never,
             DiagonalMovement.if_at_most_one_obstacle,
             DiagonalMovement.only_when_no_obstacle}

-----------------------------------------------------------------------------
(* Nodes and grids.  A cell is <<x, y, z, grid_id>>; None is <<>>. *)

None == <<>>

\* the values Node.cleanup gives the search fields
CleanFields == [h |-> 0, g |-> 0, f |-> 0, opened |-> 0, closed |-> FALSE,
                parent |-> None, retain_count |-> 0, tested |-> FALSE]

\* a cleanup that forgets the closed flag
NodeCleanupKeepsClosed(n) ==
  [n EXCEPT !.h = 0, !.g = 0, !.f = 0, !.opened = 0, !.parent = None,
            !.retain_count = 0, !.tested = FALSE]

\* a cleanup that forgets the parent
NodeCleanupKeepsParent(n) ==
  [n EXCEPT !.h = 0, !.g = 0, !.f = 0, !.opened = 0, !.closed = FALSE,
            !.retain_count = 0, !.tested = FALSE]

\* Node.cleanup
NodeCleanup(n) ==
  [n EXCEPT !.h = CleanFields.h, !.g = CleanFields.g, !.f = CleanFields.f,
            !.opened = CleanFields.opened, !.closed = CleanFields.closed,
            !.parent = CleanFields.parent,
            !.retain_count = CleanFields.retain_count,
            !.tested = CleanFields.tested]

\* GridNode(x, y, z, walkable, weight, grid_id) as build_nodes creates it:
\* Node.__init__ calls cleanup
GridNode(x, y, z, walkable, weight, grid_id) ==
  NodeCleanup([x |-> x, y |-> y, z |-> z, walkable |-> walkable,
               weight |-> weight, grid_id |-> grid_id, connections |-> <<>>,
               h |-> 0, g |-> 0, f |-> 0, opened |-> 0, closed |-> FALSE,
               parent |-> None, retain_count |-> 0, tested |-> FALSE])

CellsOf(d, gid) ==
  {<<x, y, z, gid>> : x \in 0..(d[1] - 1), y \in 0..(d[2] - 1), z \in 0..(d[3] - 1)}

\* build_nodes for one grid: matrix is a function <<x, y, z>> -> weight
build_nodes(d, matrix, inverse, gid) ==
  [c \in CellsOf(d, gid) |->
     LET weight == matrix[<<c[1], c[2], c[3]>>]
         walkable == IF inverse THEN weight <= 0 ELSE weight >= 1
     IN GridNode(c[1], c[2], c[3], walkable, weight, gid)]

\* Grid.inside
inside(D, c) ==
  /\ c[4] \in DOMAIN D
  /\ 0 <= c[1] /\ c[1] < D[c[4]][1]
  /\ 0 <= c[2] /\ c[2] < D[c[4]][2]
  /\ 0 <= c[3] /\ c[3] < D[c[4]][3]

\* a walkable that indexes the nodes without the inside test: the index wraps
\* around the grid
WalkableWithoutInside(N, D, c) ==
  N[<<c[1] % D[c[4]][1], c[2] % D[c[4]][2], c[3] % D[c[4]][3], c[4]>>].walkable

\* Grid.walkable
walkable(N, D, c) == inside(D, c) /\ N[c].walkable

\* Grid.node: the node at the coordinates, None outside the grid
NodeAt(N, D, c) == IF inside(D, c) THEN N[c] ELSE None

\* Grid._calc_cost
CalcCostUnweighted(dx, dy, dz) == SqrtTable[dx * dx + dy * dy + dz * dz]

\* Grid.calc_cost (World.calc_cost delegates to it)
calc_cost(N, a, b, weighted) ==
  LET ng == CalcCostUnweighted(b[1] - a[1], b[2] - a[2], b[3] - a[3])
  IN IF weighted THEN ng * N[b].weight ELSE ng

-----------------------------------------------------------------------------
(* Grid.neighbors *)

Opt(b, c) == IF b THEN <<c>> ELSE <<>>

B2N(b) == IF b THEN 1 ELSE 0

\* an edge gate that reads only_when_no_obstacle as "one face is enough"
EdgeGateNoObstacleAsOr(dm, a, b) ==
  CASE dm = DiagonalMovement.only_when_no_obstacle -> a \/ b
    [] dm = DiagonalMovement.if_at_most_one_obstacle -> a \/ b
    [] dm = DiagonalMovement.always -> TRUE
    [] OTHER -> FALSE

\* an edge gate that reads if_at_most_one_obstacle as "both faces"
EdgeGateAtMostOneAsAnd(dm, a, b) ==
  CASE dm = DiagonalMovement.only_when_no_obstacle -> a /\ b
    [] dm = DiagonalMovement.if_at_most_one_obstacle -> a /\ b
    [] dm = DiagonalMovement.always -> TRUE
    [] OTHER -> FALSE

\* the policy's condition on the two face flags of an edge diagonal
EdgeGate(dm, a, b) ==
  CASE dm = DiagonalMovement.only_when_no_obstacle -> a /\ b
    [] dm = DiagonalMovement.if_at_most_one_obstacle -> a \/ b
    [] dm = DiagonalMovement.always -> TRUE
    [] OTHER -> FALSE

\* a corner gate that asks if_at_most_one_obstacle for all six flags
CornerGateNeedsAllSix(dm, a, b, c, d, e, f) ==
  CASE dm = DiagonalMovement.only_when_no_obstacle -> a /\ b /\ c /\ d /\ e /\ f
    [] dm = DiagonalMovement.if_at_most_one_obstacle -> a /\ b /\ c /\ d /\ e /\ f
    [] dm = DiagonalMovement.always -> TRUE
    [] OTHER -> FALSE

\* a corner gate that reads the three straight flags only
CornerGateStraightOnly(dm, a, b, c, d, e, f) ==
  CASE dm = DiagonalMovement.only_when_no_obstacle -> a /\ c /\ f
    [] dm = DiagonalMovement.if_at_most_one_obstacle -> B2N(a) + B2N(c) + B2N(f) >= 2
    [] dm = DiagonalMovement.always -> TRUE
    [] OTHER -> FALSE

\* the policy's condition on the six contributing flags of a corner diagonal
CornerGate(dm, a, b, c, d, e, f) ==
  CASE dm = DiagonalMovement.only_when_no_obstacle -> a /\ b /\ c /\ d /\ e /\ f
    [] dm = DiagonalMovement.if_at_most_one_obstacle ->
         B2N(a) + B2N(b) + B2N(c) + B2N(d) + B2N(e) + B2N(f) >= 5
    [] dm = DiagonalMovement.always -> TRUE
    [] OTHER -> FALSE

\* the straight neighbors only, obstacles included
NeighborsIgnoreWalkable(N, D, node, dm) ==
  LET at(dx, dy, dz) == <<node[1] + dx, node[2] + dy, node[3] + dz, node[4]>>
      w(dx, dy, dz) == inside(D, at(dx, dy, dz))
  IN Opt(w(0, -1, 0), at(0, -1, 0)) \o Opt(w(1, 0, 0), at(1, 0, 0))
       \o Opt(w(0, 1, 0), at(0, 1, 0)) \o Opt(w(-1, 0, 0), at(-1, 0, 0))
       \o Opt(w(0, 0, 1), at(0, 0, 1)) \o Opt(w(0, 0, -1), at(0, 0, -1))
       \o N[node].connections

neighbors(N, D, node, dm) ==
  LET at(dx, dy, dz) == <<node[1] + dx, node[2] + dy, node[3] + dz, node[4]>>
      w(dx, dy, dz) == walkable(N, D, at(dx, dy, dz))
      cs0 == w(0, -1, 0)
      cs1 == w(1, 0, 0)
      cs2 == w(0, 1, 0)
      cs3 == w(-1, 0, 0)
      ut == w(0, 0, 1)
      lb == w(0, 0, -1)
      straight ==
        Opt(cs0, at(0, -1, 0)) \o Opt(cs1, at(1, 0, 0)) \o Opt(cs2, at(0, 1, 0))
          \o Opt(cs3, at(-1, 0, 0)) \o Opt(ut, at(0, 0, 1)) \o Opt(lb, at(0, 0, -1))
          \o N[node].connections
      cd0 == EdgeGate(dm, cs0, cs1) /\ w(1, -1, 0)
      cd1 == EdgeGate(dm, cs1, cs2) /\ w(1, 1, 0)
      cd2 == EdgeGate(dm, cs2, cs3) /\ w(-1, 1, 0)
      cd3 == EdgeGate(dm, cs3, cs0) /\ w(-1, -1, 0)
      us0 == EdgeGate(dm, cs0, ut) /\ w(0, -1, 1)
      us1 == EdgeGate(dm, cs1, ut) /\ w(1, 0, 1)
      us2 == EdgeGate(dm, cs2, ut) /\ w(0, 1, 1)
      us3 == EdgeGate(dm, cs3, ut) /\ w(-1, 0, 1)
      ls0 == EdgeGate(dm, cs0, lb) /\ w(0, -1, -1)
      ls1 == EdgeGate(dm, cs1, lb) /\ w(1, 0, -1)
      ls2 == EdgeGate(dm, cs2, lb) /\ w(0, 1, -1)
      ls3 == EdgeGate(dm, cs3, lb) /\ w(-1, 0, -1)
      edge ==
        Opt(cd0, at(1, -1, 0)) \o Opt(cd1, at(1, 1, 0)) \o Opt(cd2, at(-1, 1, 0))
          \o Opt(cd3, at(-1, -1, 0))
          \o Opt(us0, at(0, -1, 1)) \o Opt(us1, at(1, 0, 1)) \o Opt(us2, at(0, 1, 1))
          \o Opt(us3, at(-1, 0, 1))
          \o Opt(ls0, at(0, -1, -1)) \o Opt(ls1, at(1, 0, -1)) \o Opt(ls2, at(0, 1, -1))
          \o Opt(ls3, at(-1, 0, -1))
      ud0 == CornerGate(dm, cs0, cd0, cs1, us0, us1, ut)
      ud1 == CornerGate(dm, cs1, cd1, cs2, us1, us2, ut)
      ud2 == CornerGate(dm, cs2, cd2, cs3, us2, us3, ut)
      ud3 == CornerGate(dm, cs3, cd3, cs0, us3, us0, ut)
      ld0 == CornerGate(dm, cs0, cd0, cs1, ls0, ls1, lb)
      ld1 == CornerGate(dm, cs1, cd1, cs2, ls1, ls2, lb)
      ld2 == CornerGate(dm, cs2, cd2, cs3, ls2, ls3, lb)
      ld3 == CornerGate(dm, cs3, cd3, cs0, ls3, ls0, lb)
      corner ==
        Opt(ud0 /\ w(1, -1, 1), at(1, -1, 1)) \o Opt(ud1 /\ w(1, 1, 1), at(1, 1, 1))
          \o Opt(ud2 /\ w(-1, 1, 1), at(-1, 1, 1)) \o Opt(ud3 /\ w(-1, -1, 1), at(-1, -1, 1))
          \o Opt(ld0 /\ w(1, -1, -1), at(1, -1, -1)) \o Opt(ld1 /\ w(1, 1, -1), at(1, 1, -1))
          \o Opt(ld2 /\ w(-1, 1, -1), at(-1, 1, -1)) \o Opt(ld3 /\ w(-1, -1, -1), at(-1, -1, -1))
  IN IF dm = DiagonalMovement.never THEN straight ELSE straight \o edge \o corner

-----------------------------------------------------------------------------
(* Heuristics *)

\* heuristic.null
null(dx, dy, dz) == 0

\* heuristic.manhattan
manhattan(dx, dy, dz) == (dx + dy + dz) * Unit

\* heuristic.octile
octile(dx, dy, dz) ==
  LET dmax == Max3(dx, dy, dz)
      dmin == Min3(dx, dy, dz)
      dmid == dx + dy + dz - dmax - dmin
  IN dmax * Unit + SQRT2_MINUS_1 * dmid + SQRT3_MINUS_SQRT2 * dmin

-----------------------------------------------------------------------------
(* The open list of the finders: a Python list of nodes handled with heapq. *)
(* Nodes compare by f only (Node.__lt__).                                   *)

RECURSIVE SiftUp(_, _, _, _)
\* heapq._siftdown(heap, 0, pos): move newitem from position p towards the root
SiftUp(N, heap, newitem, p) ==
  IF p > 1 /\ N[newitem].f < N[heap[p \div 2]].f
  THEN Let([heap EXCEPT ![p] = heap[p \div 2]],
           LAMBDA moved : SiftUp(N, moved, newitem, p \div 2))
  ELSE [heap EXCEPT ![p] = newitem]

\* heapq.heappush(open_list, node)
heappush(N, heap, node) ==
  Let(Append(heap, node), LAMBDA grown : SiftUp(N, grown, node, Len(grown)))

\* heapq.nsmallest(1, open_list)[0]: the first element with the least f
nsmallest1(N, heap) ==
  heap[CHOOSE i \in 1..Len(heap) :
         /\ \A j \in 1..Len(heap) : N[heap[i]].f <= N[heap[j]].f
         /\ \A j \in 1..(i - 1) : N[heap[i]].f < N[heap[j]].f]

\* list.remove(node): drop the first occurrence
ListRemove(heap, node) ==
  LET i == CHOOSE k \in 1..Len(heap) : heap[k] = node /\ \A j \in 1..(k - 1) : heap[j] # node
  IN SubSeq(heap, 1, i - 1) \o SubSeq(heap, i + 1, Len(heap))

-----------------------------------------------------------------------------
(* util.backtrace *)

RECURSIVE ParentChain(_, _, _)
\* node, node.parent, node.parent.parent, ... for at most fuel links
ParentChain(N, node, fuel) ==
  IF N[node].parent = None \/ fuel = 0 THEN <<node>>
  ELSE <<node>> \o ParentChain(N, N[node].parent, fuel - 1)

Reverse(s) == [i \in 1..Len(s) |-> s[Len(s) + 1 - i]]

\* does the loop of backtrace end: is a parent-less node reached
BacktraceEnds(N, node) ==
  LET chain == ParentChain(N, node, Cardinality(DOMAIN N))
  IN N[chain[Len(chain)]].parent = None

\* backtrace without the final reverse
BacktraceNoReverse(N, node) == ParentChain(N, node, Cardinality(DOMAIN N))

backtrace(N, node) == Reverse(ParentChain(N, node, Cardinality(DOMAIN N)))

\* util.bi_backtrace
bi_backtrace(N, node_a, node_b) == backtrace(N, node_a) \o Reverse(backtrace(N, node_b))

-----------------------------------------------------------------------------
(* Finders *)

Finders == {"AStarFinder", "DijkstraFinder", "BestFirst", "BiAStarFinder",
            "BreadthFirstFinder", "IDAStarFinder", "MinimumSpanningTree"}

\* the finders that run the loop of Finder.find_path
GenericFinders == {"AStarFinder", "DijkstraFinder", "BestFirst", "BreadthFirstFinder"}

\* Finder.weighted as the constructors set it
Weighted(fk) == fk \in {"AStarFinder", "DijkstraFinder", "BiAStarFinder", "MinimumSpanningTree"}

\* Finder.weight, the default of the constructors
FinderWeight == 1

\* the end node MinimumSpanningTree.itertree hands to process_node
FakeNode == <<0 - 1, 0 - 1, 0 - 1>>

\* Finder.heuristic as the constructors set it, applied to (dx, dy, dz)
Heuristic(fk, dm, dx, dy, dz) ==
  CASE fk \in {"DijkstraFinder", "MinimumSpanningTree"} -> null(dx, dy, dz)
    [] fk \in {"AStarFinder", "BestFirst", "BiAStarFinder", "IDAStarFinder",
               "ThetaStarFinder"} ->
         IF dm = DiagonalMovement.never THEN manhattan(dx, dy, dz) ELSE octile(dx, dy, dz)
    [] OTHER -> 0

BestFirstFactor == 1000000

\* apply_heuristic of Finder, DijkstraFinder and BestFirst
apply_heuristic(fk, dm, a, b) ==
  LET base == Heuristic(fk, dm, Abs(a[1] - b[1]), Abs(a[2] - b[2]), Abs(a[3] - b[3]))
  IN CASE fk = "DijkstraFinder" -> Unit
       [] fk = "BestFirst" -> base * BestFirstFactor
       [] OTHER -> base

\* keep_running that lets the iteration numbered max_runs through
KeepRunningOffByOne(r, max_runs, el, time_limit) ==
  IF r > max_runs THEN "ExecutionRunsException"
  ELSE IF el >= time_limit THEN "ExecutionTimeException"
  ELSE "ok"

\* keep_running that allows an elapsed time equal to the limit
KeepRunningLateTimeout(r, max_runs, el, time_limit) ==
  IF r >= max_runs THEN "ExecutionRunsException"
  ELSE IF el > time_limit THEN "ExecutionTimeException"
  ELSE "ok"

\* Finder.keep_running: "ok", or the exception it raises
keep_running(r, max_runs, el, time_limit) ==
  IF r >= max_runs THEN "ExecutionRunsException"
  ELSE IF el >= time_limit THEN "ExecutionTimeException"
  ELSE "ok"

\* a process_node that, on an update, also makes node the parent of a parent-less parent
ProcessNodeLinksBothWays(N, ol, node, parent, end, open_value, fk, dm) ==
  LET ng == calc_cost(N, parent, node, Weighted(fk))
  IN IF N[node].opened = 0 \/ ng < N[node].g
     THEN LET h == IF N[node].h # 0 THEN N[node].h
                   ELSE apply_heuristic(fk, dm, node, end) * FinderWeight
          IN Let([N EXCEPT ![node].g = ng, ![node].h = h, ![node].f = ng + h,
                           ![node].parent = parent,
                           ![parent].parent = IF @ = None THEN node ELSE @],
                 LAMBDA N1 :
                   IF N[node].opened = 0
                   THEN [N |-> [N1 EXCEPT ![node].opened = open_value],
                         ol |-> heappush(N1, ol, node)]
                   ELSE Let(ListRemove(ol, node),
                            LAMBDA ol1 : [N |-> N1, ol |-> heappush(N1, ol1, node)]))
     ELSE [N |-> N, ol |-> ol]

\* a process_node that also updates on an equal tentative cost
ProcessNodeNotStrict(N, ol, node, parent, end, open_value, fk, dm) ==
  LET ng == calc_cost(N, parent, node, Weighted(fk))
  IN IF N[node].opened = 0 \/ ng <= N[node].g
     THEN LET h == IF N[node].h # 0 THEN N[node].h
                   ELSE apply_heuristic(fk, dm, node, end) * FinderWeight
          IN Let([N EXCEPT ![node].g = ng, ![node].h = h, ![node].f = ng + h,
                           ![node].parent = parent],
                 LAMBDA N1 :
                   IF N[node].opened = 0
                   THEN [N |-> [N1 EXCEPT ![node].opened = open_value],
                         ol |-> heappush(N1, ol, node)]
                   ELSE Let(ListRemove(ol, node),
                            LAMBDA ol1 : [N |-> N1, ol |-> heappush(N1, ol1, node)]))
     ELSE [N |-> N, ol |-> ol]

\* Finder.process_node: gives the new nodes and the new open list
process_node(N, ol, node, parent, end, open_value, fk, dm) ==
  LET ng == calc_cost(N, parent, node, Weighted(fk))
  IN IF N[node].opened = 0 \/ ng < N[node].g
     THEN LET h == IF N[node].h # 0 THEN N[node].h
                   ELSE apply_heuristic(fk, dm, node, end) * FinderWeight
          IN Let([N EXCEPT ![node].g = ng, ![node].h = h, ![node].f = ng + h,
                           ![node].parent = parent],
                 LAMBDA N1 :
                   IF N[node].opened = 0
                   THEN [N |-> [N1 EXCEPT ![node].opened = open_value],
                         ol |-> heappush(N1, ol, node)]
                   ELSE Let(ListRemove(ol, node),
                            LAMBDA ol1 : [N |-> N1, ol |-> heappush(N1, ol1, node)]))
     ELSE [N |-> N, ol |-> ol]

RECURSIVE AStarLoop(_, _, _, _, _, _, _, _, _, _)
\* the loop over the neighbors in AStarFinder.check_neighbors
AStarLoop(N, D, ol, nbrs, i, node, end, open_value, backtrace_by, c) ==
  IF i > Len(nbrs) THEN [N |-> N, ol |-> ol, path |-> <<>>, ends |-> TRUE]
  ELSE LET neighbor == nbrs[i]
       IN IF N[neighbor].closed
          THEN AStarLoop(N, D, ol, nbrs, i + 1, node, end, open_value, backtrace_by, c)
          ELSE IF backtrace_by # 0 /\ N[neighbor].opened = backtrace_by
          THEN [N |-> N, ol |-> ol,
                path |-> IF backtrace_by = BY_END
                         THEN bi_backtrace(N, node, neighbor)
                         ELSE bi_backtrace(N, neighbor, node),
                ends |-> BacktraceEnds(N, node) /\ BacktraceEnds(N, neighbor)]
          ELSE Let(process_node(N, ol, neighbor, node, end, open_value, c.finder, c.dm),
                   LAMBDA r : AStarLoop(r.N, D, r.ol, nbrs, i + 1, node, end, open_value,
                                        backtrace_by, c))

\* AStarFinder.check_neighbors: path is <<>> for None; ends tells whether the
\* loops of backtrace come to an end
AStarCheckNeighbors(N, D, ol, end, open_value, backtrace_by, c) ==
  Let(nsmallest1(N, ol), LAMBDA node :
    Let([N |-> [N EXCEPT ![node].closed = TRUE], ol |-> ListRemove(ol, node)], LAMBDA popped :
      IF backtrace_by = 0 /\ node = end
      THEN [N |-> popped.N, ol |-> popped.ol, path |-> backtrace(popped.N, end),
            ends |-> BacktraceEnds(popped.N, end)]
      ELSE Let(neighbors(popped.N, D, node, c.dm), LAMBDA nbrs :
             AStarLoop(popped.N, D, popped.ol, nbrs, 1, node, end, open_value,
                       backtrace_by, c))))

RECURSIVE BreadthFirstLoopIgnoresOpened(_, _, _, _, _)
\* the loop of BreadthFirstFinder.check_neighbors without the test of opened
BreadthFirstLoopIgnoresOpened(N, ol, nbrs, i, node) ==
  IF i > Len(nbrs) THEN [N |-> N, ol |-> ol, path |-> <<>>, ends |-> TRUE]
  ELSE LET neighbor == nbrs[i]
       IN IF N[neighbor].closed
          THEN BreadthFirstLoopIgnoresOpened(N, ol, nbrs, i + 1, node)
          ELSE Let([N |-> [N EXCEPT ![neighbor].opened = 1, ![neighbor].parent = node],
                    ol |-> Append(ol, neighbor)],
                   LAMBDA r : BreadthFirstLoopIgnoresOpened(r.N, r.ol, nbrs, i + 1, node))

RECURSIVE BreadthFirstLoop(_, _, _, _, _)
\* the loop over the neighbors in BreadthFirstFinder.check_neighbors
BreadthFirstLoop(N, ol, nbrs, i, node) ==
  IF i > Len(nbrs) THEN [N |-> N, ol |-> ol, path |-> <<>>, ends |-> TRUE]
  ELSE LET neighbor == nbrs[i]
       IN IF N[neighbor].closed \/ N[neighbor].opened # 0
          THEN BreadthFirstLoop(N, ol, nbrs, i + 1, node)
          ELSE Let([N |-> [N EXCEPT ![neighbor].opened = 1, ![neighbor].parent = node],
                    ol |-> Append(ol, neighbor)],
                   LAMBDA r : BreadthFirstLoop(r.N, r.ol, nbrs, i + 1, node))

\* a check_neighbors that pops the node appended last
BreadthFirstCheckNeighborsLifo(N, D, ol, end, c) ==
  Let(ol[Len(ol)], LAMBDA node :
    Let([N |-> [N EXCEPT ![node].closed = TRUE], ol |-> SubSeq(ol, 1, Len(ol) - 1)],
        LAMBDA popped :
      IF node = end
      THEN [N |-> popped.N, ol |-> popped.ol, path |-> backtrace(popped.N, end),
            ends |-> BacktraceEnds(popped.N, end)]
      ELSE Let(neighbors(popped.N, D, node, c.dm), LAMBDA nbrs :
             BreadthFirstLoop(popped.N, popped.ol, nbrs, 1, node))))

\* BreadthFirstFinder.check_neighbors
BreadthFirstCheckNeighbors(N, D, ol, end, c) ==
  Let(Head(ol), LAMBDA node :
    Let([N |-> [N EXCEPT ![node].closed = TRUE], ol |-> Tail(ol)], LAMBDA popped :
      IF node = end
      THEN [N |-> popped.N, ol |-> popped.ol, path |-> backtrace(popped.N, end),
            ends |-> BacktraceEnds(popped.N, end)]
      ELSE Let(neighbors(popped.N, D, node, c.dm), LAMBDA nbrs :
             BreadthFirstLoop(popped.N, popped.ol, nbrs, 1, node))))

\* check_neighbors as Finder.find_path dispatches it
check_neighbors(N, D, ol, end, c) ==
  IF c.finder = "BreadthFirstFinder"
  THEN BreadthFirstCheckNeighbors(N, D, ol, end, c)
  ELSE AStarCheckNeighbors(N, D, ol, end, 1, 0, c)

RECURSIVE MSTLoop(_, _, _, _, _, _)
\* the loop over the neighbors in MinimumSpanningTree.itertree
MSTLoop(N, ol, nbrs, i, node, c) ==
  IF i > Len(nbrs) THEN [N |-> N, ol |-> ol]
  ELSE IF N[nbrs[i]].closed THEN MSTLoop(N, ol, nbrs, i + 1, node, c)
  ELSE Let(process_node(N, ol, nbrs[i], node, FakeNode, 1, c.finder, c.dm),
           LAMBDA r : MSTLoop(r.N, r.ol, nbrs, i + 1, node, c))

\* MinimumSpanningTree.itertree, one iteration: the node it yields and what it leaves
itertree(N, D, ol, c) ==
  Let(nsmallest1(N, ol), LAMBDA node :
    Let([N |-> [N EXCEPT ![node].closed = TRUE], ol |-> ListRemove(ol, node)], LAMBDA popped :
      Let(neighbors(popped.N, D, node, c.dm), LAMBDA nbrs :
        Let(MSTLoop(popped.N, popped.ol, nbrs, 1, node, c), LAMBDA r :
          [node |-> node, closedN |-> popped.N, N |-> r.N, ol |-> r.ol]))))

-----------------------------------------------------------------------------
(* IDAStarFinder.search, one invocation per step.  The recursion is kept as *)
(* a stack of frames [node, g, nbrs, i, min_t]: the frame at position d + 1 *)
(* is the invocation at depth d, waiting for the search of nbrs[i].         *)

Cost(v) == [kind |-> "cost", val |-> v]

Found == [kind |-> "node", val |-> 0]

Raised(e) == [kind |-> e, val |-> 0]

NoCall == [node |-> None, g |-> 0, depth |-> 0]

\* if len(path) < depth: path += [None] * (depth - len(path) + 1); path[depth] = node
PathPut(path, depth, node) ==
  LET padded == IF Len(path) < depth
                THEN path \o [k \in 1..(depth - Len(path) + 1) |-> None]
                ELSE path
  IN IF depth + 1 <= Len(padded)
     THEN [ok |-> TRUE, path |-> [padded EXCEPT ![depth + 1] = node]]
     ELSE [ok |-> FALSE, path |-> padded]

RECURSIVE IDAReturn(_, _, _, _)
RECURSIVE IDANext(_, _, _)

\* search returns t to the invocation on top of the stack (or to find_path)
IDAReturn(N, stack, path, t) ==
  IF stack = <<>> \/ t.kind \notin {"cost", "node"}
  THEN [N |-> N, stack |-> <<>>, path |-> path, call |-> NoCall, top |-> t]
  ELSE Let(stack[Len(stack)], LAMBDA fr :
         IF t.kind = "node"
         THEN Let([put |-> PathPut(path, Len(stack) - 1, fr.node),
                   rest |-> SubSeq(stack, 1, Len(stack) - 1)],
                  LAMBDA r :
                    IF r.put.ok THEN IDAReturn(N, r.rest, r.put.path, t)
                    ELSE [N |-> N, stack |-> <<>>, path |-> r.put.path, call |-> NoCall,
                          top |-> Raised("IndexError")])
         ELSE LET neighbor == fr.nbrs[fr.i]
                  rc == N[neighbor].retain_count - 1
              IN Let([N |-> [N EXCEPT ![neighbor].retain_count = rc,
                                      ![neighbor].tested = IF rc = 0 THEN FALSE ELSE @],
                      stack |-> [stack EXCEPT ![Len(stack)].min_t =
                                                 IF t.val < @ THEN t.val ELSE @]],
                     LAMBDA r : IDANext(r.N, r.stack, path)))

\* the for loop of the invocation on top of the stack goes on to its next neighbor
IDANext(N, stack, path) ==
  Let(stack[Len(stack)], LAMBDA fr :
    IF fr.i >= Len(fr.nbrs)
    THEN Let(SubSeq(stack, 1, Len(stack) - 1),
             LAMBDA rest : IDAReturn(N, rest, path, Cost(fr.min_t)))
    ELSE LET neighbor == fr.nbrs[fr.i + 1]
         IN [N |-> [N EXCEPT ![neighbor].retain_count = @ + 1, ![neighbor].tested = TRUE],
             stack |-> [stack EXCEPT ![Len(stack)].i = fr.i + 1], path |-> path,
             call |-> [node |-> neighbor,
                       g |-> fr.g + calc_cost(N, fr.node, neighbor, FALSE),
                       depth |-> Len(stack)],
             top |-> Raised("none")])

\* the body of search(node, g, cutoff, path, depth, end, grid) after keep_running
IDASearch(N, D, stack, path, call, cutoff, end, c) ==
  LET f == call.g + apply_heuristic(c.finder, c.dm, call.node, end) * FinderWeight
  IN IF f > cutoff THEN IDAReturn(N, stack, path, Cost(f))
     ELSE IF call.node = end
     THEN Let(PathPut(path, call.depth, call.node), LAMBDA put :
            IF put.ok THEN IDAReturn(N, stack, put.path, Found)
            ELSE [N |-> N, stack |-> <<>>, path |-> put.path, call |-> NoCall,
                  top |-> Raised("IndexError")])
     ELSE Let(Append(stack, [node |-> call.node, g |-> call.g,
                             nbrs |-> neighbors(N, D, call.node, c.dm),
                             i |-> 0, min_t |-> Infinity]),
              LAMBDA pushed : IDANext(N, pushed, path))

-----------------------------------------------------------------------------
(* Grids and searches the model starts from *)

\* the latest value the clock reaches at a budget check
MaxElapsed == 1

\* Grid(matrix=...) has no grid_id (None)
NoGridId == 0 - 1

FixtureSize == 5

FixtureHeavy == 99

Box3(w, h, d) == {<<x, y, z>> : x \in 0..(w - 1), y \in 0..(h - 1), z \in 0..(d - 1)}

\* test_path.SIMPLE_MATRIX
SIMPLE_MATRIX ==
  [c \in Box3(FixtureSize, FixtureSize, FixtureSize) |->
     IF (c[1] = 0 /\ c[2] = 0) \/ c[1] \in 1..3 \/ (c[1] = 4 /\ c[3] = 0) THEN 1 ELSE 0]

\* test_path.WEIGHTED_SIMPLE_MATRIX
WEIGHTED_SIMPLE_MATRIX ==
  [c \in Box3(FixtureSize, FixtureSize, FixtureSize) |->
     IF c[1] \in 1..3 \/ c = <<4, 2, 0>> THEN FixtureHeavy
     ELSE IF c \in {<<4, 1, 1>>, <<4, 2, 1>>, <<4, 3, 1>>} THEN 1
     ELSE SIMPLE_MATRIX[c]]

\* Grid(matrix=matrix): the dimensions and the nodes of a single grid
Grid(d, matrix) ==
  [dims |-> [g \in {NoGridId} |-> d], nodes |-> build_nodes(d, matrix, FALSE, NoGridId)]

Config(fk, dm, max_runs, time_limit, start, end) ==
  [finder |-> fk, dm |-> dm, max_runs |-> max_runs, time_limit |-> time_limit,
   start |-> start, end |-> end, world |-> FALSE]

Instance(grid, c) == [dims |-> grid.dims, nodes |-> grid.nodes, cfg |-> c]

\* test_path: the corridor fixtures, from (0,0,0) to (4,4,0)
FixtureInstances ==
  {Instance(Grid(<<FixtureSize, FixtureSize, FixtureSize>>, m),
            Config(fk, dm, MAX_RUNS, TIME_LIMIT, <<0, 0, 0, NoGridId>>, <<4, 4, 0, NoGridId>>)) :
     m \in {SIMPLE_MATRIX, WEIGHTED_SIMPLE_MATRIX}, fk \in Finders,
     dm \in {DiagonalMovement.never, DiagonalMovement.always}}

\* small grids: a 2x2x2 box with a few obstacles or a few heavy cells
SmallDims == <<2, 2, 2>>

SmallStart == <<0, 0, 0>>

SmallEnds == {<<0, 0, 0>>, <<1, 1, 0>>, <<1, 1, 1>>}

MaxObstacles == 2

MaxHeavy == 2

HeavyWeight == 2

RECURSIVE UpTo(_, _)
\* the subsets of S of at most n elements
UpTo(S, n) ==
  IF n = 0 THEN {{}}
  ELSE Let(UpTo(S, n - 1), LAMBDA smaller : smaller \cup {T \cup {x} : T \in smaller, x \in S})

SmallMatrices ==
  LET box == Box3(SmallDims[1], SmallDims[2], SmallDims[3])
  IN {[c \in box |-> IF c \in O THEN 0 ELSE 1] :
        O \in UpTo(box \ {SmallStart}, MaxObstacles)}
     \cup {[c \in box |-> IF c \in H THEN HeavyWeight ELSE 1] :
              H \in UpTo(box \ {SmallStart}, MaxHeavy)}

At(c, gid) == <<c[1], c[2], c[3], gid>>

SmallInstances ==
  {Instance(Grid(SmallDims, m),
            Config(fk, dm, MAX_RUNS, TIME_LIMIT, At(SmallStart, NoGridId), At(e, NoGridId))) :
     m \in SmallMatrices, fk \in Finders, dm \in Policies, e \in SmallEnds}

\* a 3x3x1 grid cut in two by the wall x = 1: (2,2,0) is out of reach of (0,0,0)
WallDims == <<3, 3, 1>>

WALL_MATRIX ==
  [c \in Box3(WallDims[1], WallDims[2], WallDims[3]) |-> IF c[1] = 1 THEN 0 ELSE 1]

WallInstances ==
  {Instance(Grid(WallDims, WALL_MATRIX),
            Config(fk, dm, MAX_RUNS, TIME_LIMIT, <<0, 0, 0, NoGridId>>, <<2, 2, 0, NoGridId>>)) :
     fk \in Finders, dm \in Policies}

\* budgets: max_runs and time_limit of the constructors, on the open 2x2x2 grid
MaxRunsBudget == 4

OPEN_MATRIX == [c \in Box3(SmallDims[1], SmallDims[2], SmallDims[3]) |-> 1]

BudgetInstances ==
  {Instance(Grid(SmallDims, OPEN_MATRIX),
            Config(fk, dm, max_runs, time_limit, At(SmallStart, NoGridId),
                   <<1, 1, 1, NoGridId>>)) :
     fk \in Finders, dm \in {DiagonalMovement.never, DiagonalMovement.always},
     max_runs \in ((0 - 1)..MaxRunsBudget) \cup {MAX_RUNS},
     time_limit \in (0..MaxElapsed) \cup {TIME_LIMIT}}

\* test_connect_grids.gen_world: two 3x3x3 grids, the cells (x,1,1) blocked,
\* joined at (2,2,2) in both directions
WorldDims == <<3, 3, 3>>

WORLD_MATRIX ==
  [c \in Box3(WorldDims[1], WorldDims[2], WorldDims[3]) |->
     IF c[2] = 1 /\ c[3] = 1 THEN 0 ELSE 1]

\* a connect that appends the node below other_node
ConnectBelow(N, a, b) ==
  [N EXCEPT ![a].connections = Append(@, <<b[1], b[2], b[3] - 1, b[4]>>)]

\* a connect that also appends this node to other_node.connections
ConnectBothWays(N, a, b) ==
  [N EXCEPT ![a].connections = Append(@, b), ![b].connections = Append(@, a)]

\* GridNode.connect
connect(N, a, b) == [N EXCEPT ![a].connections = Append(@, b)]

\* World({0: grid0, 1: grid1})
World ==
  LET d == [g \in {0, 1} |-> WorldDims]
      N0 == [c \in CellsOf(WorldDims, 0) \cup CellsOf(WorldDims, 1) |->
               build_nodes(WorldDims, WORLD_MATRIX, FALSE, c[4])[c]]
  IN [dims |-> d,
      nodes |-> connect(connect(N0, <<2, 2, 2, 0>>, <<2, 2, 2, 1>>),
                        <<2, 2, 2, 1>>, <<2, 2, 2, 0>>)]

\* the finders searched over the world
WorldFinders == Finders \ {"IDAStarFinder"}

WorldInstances ==
  {Instance(World, [Config(fk, dm, MAX_RUNS, TIME_LIMIT, <<2, 0, 0, 0>>, <<2, 0, 0, 1>>)
                      EXCEPT !.world = TRUE]) :
     fk \in WorldFinders, dm \in {DiagonalMovement.never, DiagonalMovement.always}}

Instances ==
  FixtureInstances \cup SmallInstances \cup WallInstances \cup BudgetInstances
    \cup WorldInstances

-----------------------------------------------------------------------------
(* Actions *)

MaxSearches == 2

RunCap == 150

NoResult == [kind |-> "none", path |-> <<>>, runs |-> 0]

NoIda == [cutoff |-> 0, path |-> <<>>, stack |-> <<>>, call |-> NoCall]

Init ==
  \E inst \in Instances :
    /\ nodes = inst.nodes
    /\ dims = inst.dims
    /\ cfg = inst.cfg
    /\ pc = "idle"
    /\ runs = 0
    /\ open_list = <<>>
    /\ end_open_list = <<>>
    /\ phase = "fwd"
    /\ ida = NoIda
    /\ result = NoResult
    /\ fresh = NoResult
    /\ searchNo = 0
    /\ elapsed = 0
    /\ cleaned = DOMAIN inst.dims
    /\ lastOp = "init"

\* the first statements of find_path, up to the first test of its loop; a search
\* starts on a new grid or after cleanup() was called on every grid
FindPath ==
  /\ pc = "idle"
  /\ searchNo < MaxSearches
  /\ cleaned = DOMAIN dims
  /\ cleaned' = {}
  /\ searchNo' = searchNo + 1
  /\ pc' = "running"
  /\ runs' = 0
  /\ elapsed' = 0
  /\ result' = NoResult
  /\ phase' = "fwd"
  /\ lastOp' = "find_path"
  /\ UNCHANGED <<dims, cfg, fresh>>
  /\ CASE cfg.finder \in {"AStarFinder", "DijkstraFinder", "BestFirst", "ThetaStarFinder"} ->
            /\ nodes' = [nodes EXCEPT ![cfg.start].g = 0, ![cfg.start].f = 0,
                                      ![cfg.start].opened = 1]
            /\ open_list' = <<cfg.start>>
            /\ end_open_list' = <<>>
            /\ ida' = NoIda
       [] cfg.finder \in {"BreadthFirstFinder", "MinimumSpanningTree"} ->
            /\ nodes' = [nodes EXCEPT ![cfg.start].opened = 1]
            /\ open_list' = <<cfg.start>>
            /\ end_open_list' = <<>>
            /\ ida' = NoIda
       [] cfg.finder = "BiAStarFinder" ->
            /\ nodes' = [[nodes EXCEPT ![cfg.start].g = 0, ![cfg.start].f = 0,
                                       ![cfg.start].opened = BY_START]
                           EXCEPT ![cfg.end].g = 0, ![cfg.end].f = 0,
                                  ![cfg.end].opened = BY_END]
            /\ open_list' = <<cfg.start>>
            /\ end_open_list' = <<cfg.end>>
            /\ ida' = NoIda
       [] cfg.finder = "IDAStarFinder" ->
            /\ nodes' = nodes
            /\ open_list' = <<>>
            /\ end_open_list' = <<>>
            /\ ida' = [cutoff |-> apply_heuristic(cfg.finder, cfg.dm, cfg.start, cfg.end),
                       path |-> <<>>, stack |-> <<>>,
                       call |-> [node |-> cfg.start, g |-> 0, depth |-> 0]]

\* time.time() - start_time at a budget check: it never decreases
ElapsedNow == IF cfg.time_limit = TIME_LIMIT THEN {elapsed} ELSE elapsed..MaxElapsed

\* find_path is left: with a path (maybe empty) or with an exception; it is
\* never left ("hang") when backtrace runs round a cycle of parents
Finish(kind, path, N) ==
  LET res == [kind |-> kind, path |-> path, runs |-> runs']
  IN /\ pc' = CASE kind = "path" -> "returned"
                [] kind = "hang" -> "hung"
                [] OTHER -> "raised"
     /\ result' = res
     /\ fresh' = IF searchNo = 1 THEN res ELSE fresh
     /\ nodes' = N
     /\ open_list' = <<>>
     /\ end_open_list' = <<>>
     /\ ida' = NoIda
     /\ phase' = "fwd"

\* one iteration of the loop of Finder.find_path
GenericStep ==
  /\ pc = "running"
  /\ cfg.finder \in GenericFinders
  /\ runs < RunCap
  /\ runs' = runs + 1
  /\ lastOp' = "step"
  /\ UNCHANGED <<dims, cfg, searchNo, cleaned>>
  /\ \E el \in ElapsedNow :
       /\ elapsed' = el
       /\ \E k \in {keep_running(runs + 1, cfg.max_runs, el, cfg.time_limit)} :
            IF k # "ok" THEN Finish(k, <<>>, nodes)
            ELSE \E r \in {check_neighbors(nodes, dims, open_list, cfg.end, cfg)} :
                   IF r.path # <<>>
                   THEN IF r.ends THEN Finish("path", r.path, r.N)
                        ELSE Finish("hang", <<>>, r.N)
                   ELSE IF r.ol = <<>> THEN Finish("path", <<>>, r.N)
                   ELSE /\ nodes' = r.N
                        /\ open_list' = r.ol
                        /\ UNCHANGED <<pc, result, fresh, end_open_list, ida, phase>>

\* one half of the loop body of BiAStarFinder.find_path
BiAStarStep ==
  /\ pc = "running"
  /\ cfg.finder = "BiAStarFinder"
  /\ runs < RunCap
  /\ runs' = runs + 1
  /\ lastOp' = "step"
  /\ UNCHANGED <<dims, cfg, searchNo, cleaned>>
  /\ \E el \in ElapsedNow :
       /\ elapsed' = el
       /\ \E k \in {keep_running(runs + 1, cfg.max_runs, el, cfg.time_limit)} :
            IF k # "ok" THEN Finish(k, <<>>, nodes)
            ELSE \E r \in {IF phase = "fwd"
                           THEN AStarCheckNeighbors(nodes, dims, open_list, cfg.end,
                                                    BY_START, BY_END, cfg)
                           ELSE AStarCheckNeighbors(nodes, dims, end_open_list, cfg.start,
                                                    BY_END, BY_START, cfg)} :
                   LET ol1 == IF phase = "fwd" THEN r.ol ELSE open_list
                       eol1 == IF phase = "fwd" THEN end_open_list ELSE r.ol
                   IN IF r.path # <<>>
                      THEN IF r.ends THEN Finish("path", r.path, r.N)
                           ELSE Finish("hang", <<>>, r.N)
                      ELSE IF phase = "bwd" /\ (ol1 = <<>> \/ eol1 = <<>>)
                      THEN Finish("path", <<>>, r.N)
                      ELSE /\ nodes' = r.N
                           /\ open_list' = ol1
                           /\ end_open_list' = eol1
                           /\ phase' = IF phase = "fwd" THEN "bwd" ELSE "fwd"
                           /\ UNCHANGED <<pc, result, fresh, ida>>

\* one iteration of MinimumSpanningTree.itertree, with find_path's test of the node it yields
MSTStep ==
  /\ pc = "running"
  /\ cfg.finder = "MinimumSpanningTree"
  /\ runs < RunCap
  /\ runs' = runs + 1
  /\ lastOp' = "step"
  /\ UNCHANGED <<dims, cfg, searchNo, cleaned>>
  /\ \E el \in ElapsedNow :
       /\ elapsed' = el
       /\ \E k \in {keep_running(runs + 1, cfg.max_runs, el, cfg.time_limit)} :
            IF k # "ok" THEN Finish(k, <<>>, nodes)
            ELSE \E r \in {itertree(nodes, dims, open_list, cfg)} :
                   IF r.node = cfg.end
                   THEN IF BacktraceEnds(r.closedN, r.node)
                        THEN Finish("path", backtrace(r.closedN, r.node), r.closedN)
                        ELSE Finish("hang", <<>>, r.closedN)
                   ELSE IF r.ol = <<>> THEN Finish("path", <<>>, r.N)
                   ELSE /\ nodes' = r.N
                        /\ open_list' = r.ol
                        /\ UNCHANGED <<pc, result, fresh, end_open_list, ida, phase>>

\* one invocation of IDAStarFinder.search, up to the next invocation
IDAStarStep ==
  /\ pc = "running"
  /\ cfg.finder = "IDAStarFinder"
  /\ runs < RunCap
  /\ runs' = runs + 1
  /\ lastOp' = "step"
  /\ UNCHANGED <<dims, cfg, searchNo, cleaned>>
  /\ \E el \in ElapsedNow :
       /\ elapsed' = el
       /\ \E k \in {keep_running(runs + 1, cfg.max_runs, el, cfg.time_limit)} :
            IF k # "ok" THEN Finish(k, <<>>, nodes)
            ELSE \E r \in {IDASearch(nodes, dims, ida.stack, ida.path, ida.call, ida.cutoff,
                                     cfg.end, cfg)} :
                   IF r.top.kind = "node" THEN Finish("path", r.path, r.N)
                   ELSE IF r.top.kind = "cost"
                   THEN /\ nodes' = r.N
                        /\ ida' = [cutoff |-> r.top.val, path |-> <<>>, stack |-> <<>>,
                                   call |-> [node |-> cfg.start, g |-> 0, depth |-> 0]]
                        /\ UNCHANGED <<pc, result, fresh, open_list, end_open_list, phase>>
                   ELSE IF r.top.kind = "none"
                   THEN /\ nodes' = r.N
                        /\ ida' = [cutoff |-> ida.cutoff, path |-> r.path, stack |-> r.stack,
                                   call |-> r.call]
                        /\ UNCHANGED <<pc, result, fresh, open_list, end_open_list, phase>>
                   ELSE Finish(r.top.kind, <<>>, r.N)

\* Grid.cleanup of the grid g
GridCleanup(g) ==
  /\ pc \in {"returned", "raised"}
  /\ g \in DOMAIN dims
  /\ nodes' = [c \in DOMAIN nodes |-> IF c[4] = g THEN NodeCleanup(nodes[c]) ELSE nodes[c]]
  /\ cleaned' = cleaned \cup {g}
  /\ pc' = IF cleaned' = DOMAIN dims THEN "idle" ELSE pc
  /\ lastOp' = "Grid.cleanup"
  /\ UNCHANGED <<dims, cfg, runs, open_list, end_open_list, phase, ida, result, fresh,
                 searchNo, elapsed>>

\* World.cleanup: the cleanup of every grid of the world
WorldCleanup ==
  /\ pc \in {"returned", "raised"}
  /\ cfg.world
  /\ nodes' = [c \in DOMAIN nodes |-> NodeCleanup(nodes[c])]
  /\ cleaned' = DOMAIN dims
  /\ pc' = "idle"
  /\ lastOp' = "World.cleanup"
  /\ UNCHANGED <<dims, cfg, runs, open_list, end_open_list, phase, ida, result, fresh,
                 searchNo, elapsed>>

Next ==
  \/ FindPath
  \/ GenericStep
  \/ BiAStarStep
  \/ MSTStep
  \/ IDAStarStep
  \/ \E g \in DOMAIN dims : GridCleanup(g)
  \/ WorldCleanup

Spec == Init /\ [][Next]_vars

-----------------------------------------------------------------------------
(* Grid.neighbors as a function of its own: a grid, a node of it and a      *)
(* policy are drawn, then neighbors is called.                              *)

NeighborDims == <<3, 3, 3>>

MaxNeighborObstacles == 2

\* the cells neighbors(c) reads the walkable flag of, and c
Around(c) ==
  {b \in Box3(NeighborDims[1], NeighborDims[2], NeighborDims[3]) :
     \A i \in 1..3 : Abs(b[i] - c[i]) <= 1}

\* the grids with a few obstacles, placed where neighbors(c) looks
NeighborMatrices(c) ==
  {[b \in Box3(NeighborDims[1], NeighborDims[2], NeighborDims[3]) |->
      IF b \in O THEN 0 ELSE 1] : O \in UpTo(Around(c), MaxNeighborObstacles)}

\* cfg.start and cfg.dm are the arguments of the call: the node and the policy
NeighborsInit ==
  \E c \in CellsOf(NeighborDims, NoGridId), dm \in Policies :
   \E m \in NeighborMatrices(c) :
    /\ nodes = Grid(NeighborDims, m).nodes
    /\ dims = Grid(NeighborDims, m).dims
    /\ cfg = Config("none", dm, MAX_RUNS, TIME_LIMIT, c, c)
    /\ pc = "idle"
    /\ runs = 0
    /\ open_list = <<>>
    /\ end_open_list = <<>>
    /\ phase = "fwd"
    /\ ida = NoIda
    /\ result = NoResult
    /\ fresh = NoResult
    /\ searchNo = 0
    /\ elapsed = 0
    /\ cleaned = {NoGridId}
    /\ lastOp = "init"

\* grid.neighbors(grid.node(x, y, z), dm)
NeighborsCall ==
  /\ lastOp = "init"
  /\ result' = [kind |-> "neighbors", path |-> neighbors(nodes, dims, cfg.start, cfg.dm),
                runs |-> 0]
  /\ lastOp' = "neighbors"
  /\ UNCHANGED <<nodes, dims, cfg, pc, runs, open_list, end_open_list, phase, ida, fresh,
                 searchNo, elapsed, cleaned>>

NeighborsNext == NeighborsCall

NeighborsSpec == NeighborsInit /\ [][NeighborsNext]_vars

-----------------------------------------------------------------------------
(* Grid construction and the coordinate queries: a matrix, as the nested    *)
(* lists Python is given (matrix[x + 1][y + 1][z + 1] here), is drawn, the  *)
(* grid is constructed, then inside, walkable, node or neighbors is called. *)

MaxSide == 2

MaxGridObstacles == 1

\* the w x h x d nested list with 0 at the cells of O and 1 elsewhere
NestedMatrix(w, h, d, O) ==
  [x \in 1..w |-> [y \in 1..h |-> [z \in 1..d |->
     IF <<x - 1, y - 1, z - 1>> \in O THEN 0 ELSE 1]]]

\* rectangular matrices, the empty ones among them ([], [[]], [[[]]], ...)
RectangularMatrices ==
  UNION {{NestedMatrix(w, h, d, O) : O \in UpTo(Box3(w, h, d), MaxGridObstacles)} :
           w \in 0..MaxSide, h \in 0..MaxSide, d \in 0..MaxSide}

\* matrices of ones in which the column x or the row (x, y) has a length of
\* its own
RaggedMatrices ==
  UNION {{[NestedMatrix(w, h, d, {}) EXCEPT ![x] = NestedMatrix(1, k, d, {})[1]] :
            x \in 1..w, k \in (0..MaxSide) \ {h}}
         \cup
         {[NestedMatrix(w, h, d, {}) EXCEPT ![x][y] = NestedMatrix(1, 1, k, {})[1][1]] :
            x \in 1..w, y \in 1..h, k \in (0..MaxSide) \ {d}} :
           w \in 1..MaxSide, h \in 1..MaxSide, d \in 1..MaxSide}

GridMatrices == RectangularMatrices \cup RaggedMatrices

\* Grid._validate_dimensions with a matrix: the dimensions, or ValueError
validate_dimensions(matrix) ==
  IF Len(matrix) > 0 /\ Len(matrix[1]) > 0 /\ Len(matrix[1][1]) > 0
  THEN <<Len(matrix), Len(matrix[1]), Len(matrix[1][1])>>
  ELSE "ValueError"

\* Grid.is_valid_grid
is_valid_grid(d) == d[1] > 0 /\ d[2] > 0 /\ d[3] > 0

\* build_nodes reads matrix[x][y][z] for every cell of the dimensions: a list
\* too short for an index raises IndexError
IndexErrorIn(d, matrix) ==
  \E c \in Box3(d[1], d[2], d[3]) :
    \/ c[2] + 1 > Len(matrix[c[1] + 1])
    \/ c[3] + 1 > Len(matrix[c[1] + 1][c[2] + 1])

\* Grid.__init__(matrix=matrix): the exception raised, or the grid
GridInit(matrix) ==
  Let(validate_dimensions(matrix), LAMBDA d :
    IF d = "ValueError" THEN [kind |-> "ValueError"]
    ELSE IF ~is_valid_grid(d) THEN [kind |-> "grid", dims |-> d, nodes |-> <<>>]
    ELSE IF IndexErrorIn(d, matrix) THEN [kind |-> "IndexError"]
    ELSE [kind |-> "grid", dims |-> d,
          nodes |-> build_nodes(d, [c \in Box3(d[1], d[2], d[3]) |->
                                      matrix[c[1] + 1][c[2] + 1][c[3] + 1]],
                                FALSE, NoGridId)])

\* the coordinates the queries are called with: around and in the grid
ProbeCells ==
  {<<x, y, z, NoGridId>> : x \in (0 - MaxSide)..MaxSide, y \in (0 - MaxSide)..MaxSide,
                           z \in (0 - MaxSide)..MaxSide}

\* cfg.matrix is the argument of the constructor
GridSpecInit ==
  \E m \in GridMatrices :
    /\ nodes = <<>>
    /\ dims = <<>>
    /\ cfg = [matrix |-> m]
    /\ pc = "idle"
    /\ runs = 0
    /\ open_list = <<>>
    /\ end_open_list = <<>>
    /\ phase = "fwd"
    /\ ida = NoIda
    /\ result = NoResult
    /\ fresh = NoResult
    /\ searchNo = 0
    /\ elapsed = 0
    /\ cleaned = {}
    /\ lastOp = "init"

\* grid = Grid(matrix=matrix)
Construct ==
  /\ lastOp = "init"
  /\ \E g \in {GridInit(cfg.matrix)} :
       /\ result' = [kind |-> g.kind, path |-> <<>>, runs |-> 0]
       /\ IF g.kind = "grid"
          THEN nodes' = g.nodes /\ dims' = [i \in {NoGridId} |-> g.dims]
          ELSE UNCHANGED <<nodes, dims>>
  /\ lastOp' = "Grid"
  /\ UNCHANGED <<cfg, pc, runs, open_list, end_open_list, phase, ida, fresh, searchNo,
                 elapsed, cleaned>>

\* grid.inside(x, y, z), grid.walkable(x, y, z), grid.node(x, y, z)
Probe ==
  /\ lastOp = "Grid"
  /\ result.kind = "grid"
  /\ \E c \in ProbeCells :
       result' = [kind |-> "probe", path |-> <<c>>, runs |-> 0,
                  inside |-> inside(dims, c), walkable |-> walkable(nodes, dims, c),
                  node |-> NodeAt(nodes, dims, c)]
  /\ lastOp' = "probe"
  /\ UNCHANGED <<nodes, dims, cfg, pc, runs, open_list, end_open_list, phase, ida, fresh,
                 searchNo, elapsed, cleaned>>

\* grid.neighbors(grid.node(x, y, z), dm) on a cell of the grid
ProbeNeighbors ==
  /\ lastOp = "Grid"
  /\ result.kind = "grid"
  /\ \E c \in DOMAIN nodes, dm \in Policies :
       result' = [kind |-> "neighbors", path |-> neighbors(nodes, dims, c, dm), runs |-> 0,
                  of |-> c, dm |-> dm]
  /\ lastOp' = "neighbors"
  /\ UNCHANGED <<nodes, dims, cfg, pc, runs, open_list, end_open_list, phase, ida, fresh,
                 searchNo, elapsed, cleaned>>

GridSpecNext == Construct \/ Probe \/ ProbeNeighbors

GridSpec == GridSpecInit /\ [][GridSpecNext]_vars

-----------------------------------------------------------------------------
(* core.heap.SimpleHeap: a Python list of tuples (f, order, x, y, z)        *)
(* handled with heapq, a set of removed tuples and the order of each node's *)
(* last push.                                                               *)

\* the < of Python tuples of the same length
TupleLess(a, b) ==
  \E i \in 1..Len(a) : a[i] < b[i] /\ \A j \in 1..(i - 1) : a[j] = b[j]

RECURSIVE TupleSiftdown(_, _, _)
\* heapq._siftdown(heap, 0, pos): move newitem from position p towards the root
TupleSiftdown(heap, newitem, p) ==
  IF p > 1 /\ TupleLess(newitem, heap[p \div 2])
  THEN Let([heap EXCEPT ![p] = heap[p \div 2]],
           LAMBDA moved : TupleSiftdown(moved, newitem, p \div 2))
  ELSE [heap EXCEPT ![p] = newitem]

\* heapq.heappush(self.open_list, node_tuple)
TupleHeappush(heap, item) ==
  Let(Append(heap, item), LAMBDA grown : TupleSiftdown(grown, item, Len(grown)))

RECURSIVE TupleSiftup(_, _, _)
\* heapq._siftup(heap, 0): bubble the smaller child up to a leaf, then sift
\* newitem down from there
TupleSiftup(heap, newitem, p) ==
  IF 2 * p <= Len(heap)
  THEN Let(IF 2 * p + 1 <= Len(heap) /\ ~TupleLess(heap[2 * p], heap[2 * p + 1])
           THEN 2 * p + 1 ELSE 2 * p,
           LAMBDA child : TupleSiftup([heap EXCEPT ![p] = heap[child]], newitem, child))
  ELSE TupleSiftdown(heap, newitem, p)

\* heapq.heappop(self.open_list) on a list that is not empty
TupleHeappop(heap) ==
  Let(SubSeq(heap, 1, Len(heap) - 1), LAMBDA rest :
    IF rest # <<>>
    THEN [item |-> rest[1], heap |-> TupleSiftup(rest, heap[Len(heap)], 1)]
    ELSE [item |-> heap[Len(heap)], heap |-> <<>>])

\* SimpleHeap._get_node_tuple: (node.f, heap_order, *node.identifier)
get_node_tuple(N, n, heap_order) == <<N[n].f, heap_order, n[1], n[2], n[3]>>

\* SimpleHeap._get_node: grid.node(*node_tuple[2:])
get_node(node_tuple) == <<node_tuple[3], node_tuple[4], node_tuple[5], NoGridId>>

\* SimpleHeap(node, grid)
SimpleHeap(N, n) ==
  [open_list |-> <<get_node_tuple(N, n, 0)>>, removed_node_tuples |-> {},
   heap_order |-> <<>>, number_pushed |-> 0]

\* a pop_node that returns the tuple heappop gives, removed or not
PopNodeKeepsRemoved(H) ==
  IF H.open_list = <<>> THEN [raised |-> "IndexError", node |-> None, heap |-> H]
  ELSE Let(TupleHeappop(H.open_list), LAMBDA r :
         [raised |-> "", node |-> get_node(r.item), heap |-> [H EXCEPT !.open_list = r.heap]])

RECURSIVE pop_node(_)
\* SimpleHeap.pop_node: heappop until a tuple that was not removed; heappop of
\* the empty list raises IndexError
pop_node(H) ==
  IF H.open_list = <<>> THEN [raised |-> "IndexError", node |-> None, heap |-> H]
  ELSE Let(TupleHeappop(H.open_list), LAMBDA r :
         IF r.item \in H.removed_node_tuples
         THEN pop_node([H EXCEPT !.open_list = r.heap])
         ELSE [raised |-> "", node |-> get_node(r.item),
               heap |-> [H EXCEPT !.open_list = r.heap]])

\* SimpleHeap.push_node
push_node(N, H, n) ==
  Let(H.number_pushed + 1, LAMBDA number_pushed :
    [open_list |-> TupleHeappush(H.open_list, get_node_tuple(N, n, number_pushed)),
     removed_node_tuples |-> H.removed_node_tuples,
     heap_order |-> [i \in DOMAIN H.heap_order \cup {n} |->
                       IF i = n THEN number_pushed ELSE H.heap_order[i]],
     number_pushed |-> number_pushed])

\* a remove_node that builds the tuple from old_f, the cost the entry was
\* pushed with
RemoveNodeByOldF(N, H, n, old_f) ==
  IF n \notin DOMAIN H.heap_order THEN [raised |-> "KeyError", heap |-> H]
  ELSE [raised |-> "",
        heap |-> [H EXCEPT !.removed_node_tuples =
                    @ \cup {get_node_tuple([N EXCEPT ![n].f = old_f], n, H.heap_order[n])}]]

\* SimpleHeap.remove_node(node, old_f): the tuple is built from the node's f
\* at the call, old_f is not read; a node never pushed raises KeyError
remove_node(N, H, n, old_f) ==
  IF n \notin DOMAIN H.heap_order THEN [raised |-> "KeyError", heap |-> H]
  ELSE [raised |-> "",
        heap |-> [H EXCEPT !.removed_node_tuples =
                    @ \cup {get_node_tuple(N, n, H.heap_order[n])}]]

\* the f the nodes may have, and the number of push_node calls
HeapCosts == {0, 1}

MaxPushes == 3

HeapDims == <<1, 1, 3>>

HeapStart == <<0, 0, 0, NoGridId>>

\* the push_node calls so far in their order, SimpleHeap's first tuple
\* included: the node, its f at the call and what became of the entry
Entry(n, f) == [node |-> n, f |-> f, state |-> "active"]

ActiveEntries(pushed) == {i \in 1..Len(pushed) : pushed[i].state = "active"}

\* the active entry with the least f, the earliest pushed among equals
MinActive(pushed) ==
  CHOOSE i \in ActiveEntries(pushed) :
    \A j \in ActiveEntries(pushed) :
      pushed[i].f < pushed[j].f \/ (pushed[i].f = pushed[j].f /\ i <= j)

\* the entry last pushed for n is removed, if there is one and it is active
MarkRemoved(pushed, n) ==
  [i \in 1..Len(pushed) |->
     IF /\ pushed[i].node = n
        /\ pushed[i].state = "active"
        /\ \A j \in (i + 1)..Len(pushed) : pushed[j].node # n
     THEN [pushed[i] EXCEPT !.state = "removed"] ELSE pushed[i]]

MarkPopped(pushed) ==
  IF ActiveEntries(pushed) = {} THEN pushed
  ELSE [pushed EXCEPT ![MinActive(pushed)].state = "popped"]

\* open_list = SimpleHeap(start, grid) on a grid whose nodes have some f
HeapInit ==
  \E fs \in [CellsOf(HeapDims, NoGridId) -> HeapCosts] :
    /\ nodes = [c \in CellsOf(HeapDims, NoGridId) |->
                  [GridNode(c[1], c[2], c[3], TRUE, 1, NoGridId) EXCEPT !.f = fs[c]]]
    /\ dims = [g \in {NoGridId} |-> HeapDims]
    /\ cfg = [start |-> HeapStart]
    /\ pc = "idle"
    /\ runs = 0
    /\ open_list = SimpleHeap(nodes, HeapStart)
    /\ end_open_list = <<>>
    /\ phase = "fwd"
    /\ ida = NoIda
    /\ result = [kind |-> "SimpleHeap", node |-> None,
                 pushed |-> <<Entry(HeapStart, fs[HeapStart])>>, popped |-> <<>>,
                 finderlike |-> TRUE, lowered |-> FALSE]
    /\ fresh = NoResult
    /\ searchNo = 0
    /\ elapsed = 0
    /\ cleaned = {}
    /\ lastOp = "init"

\* open_list.push_node(node); the finders push a node once, when it is not
\* opened
PushNode ==
  /\ open_list.number_pushed < MaxPushes
  /\ \E n \in DOMAIN nodes :
       /\ open_list' = push_node(nodes, open_list, n)
       /\ result' = [result EXCEPT
                       !.kind = "push_node", !.node = None,
                       !.pushed = Append(@, Entry(n, nodes[n].f)),
                       !.finderlike = @ /\ \A i \in 1..Len(result.pushed) :
                                              result.pushed[i].node # n]
  /\ lastOp' = "push_node"
  /\ UNCHANGED <<nodes, dims, cfg, pc, runs, end_open_list, phase, ida, fresh, searchNo,
                 elapsed, cleaned>>

\* open_list.remove_node(node, node.f)
RemoveNode ==
  /\ \E n \in DOMAIN nodes :
       \E r \in {remove_node(nodes, open_list, n, nodes[n].f)} :
         /\ open_list' = r.heap
         /\ result' = [result EXCEPT
                         !.kind = IF r.raised = "" THEN "remove_node" ELSE r.raised,
                         !.node = None,
                         !.pushed = IF r.raised = "" THEN MarkRemoved(@, n) ELSE @,
                         !.finderlike = FALSE]
  /\ lastOp' = "remove_node"
  /\ UNCHANGED <<nodes, dims, cfg, pc, runs, end_open_list, phase, ida, fresh, searchNo,
                 elapsed, cleaned>>

\* node = open_list.pop_node()
PopNode ==
  /\ \E r \in {pop_node(open_list)} :
       /\ open_list' = r.heap
       /\ result' = [result EXCEPT
                       !.kind = IF r.raised = "" THEN "pop_node" ELSE r.raised,
                       !.node = r.node,
                       !.pushed = MarkPopped(@),
                       !.popped = IF r.raised = "" THEN Append(@, r.node) ELSE @]
  /\ lastOp' = "pop_node"
  /\ UNCHANGED <<nodes, dims, cfg, pc, runs, end_open_list, phase, ida, fresh, searchNo,
                 elapsed, cleaned>>

\* ThetaStarFinder.process_node on a node that is opened and not closed, with
\* a lower cost: old_f = node.f; node.f = ...;
\* open_list.remove_node(node, old_f); open_list.push_node(node)
DecreaseKey ==
  /\ open_list.number_pushed < MaxPushes
  /\ \E n \in DOMAIN open_list.heap_order :
       /\ \A i \in 1..Len(result.popped) : result.popped[i] # n
       /\ \E f \in {g \in HeapCosts : g < nodes[n].f} :
            \E N \in {[nodes EXCEPT ![n].f = f]} :
              \E r \in {remove_node(N, open_list, n, nodes[n].f)} :
                /\ nodes' = N
                /\ open_list' = push_node(N, r.heap, n)
                /\ result' = [result EXCEPT
                                !.kind = "decrease_key", !.node = None,
                                !.pushed = Append(MarkRemoved(@, n), Entry(n, f)),
                                !.lowered = TRUE]
  /\ lastOp' = "decrease_key"
  /\ UNCHANGED <<dims, cfg, pc, runs, end_open_list, phase, ida, fresh, searchNo,
                 elapsed, cleaned>>

HeapNext == PushNode \/ RemoveNode \/ PopNode \/ DecreaseKey

HeapSpec == HeapInit /\ [][HeapNext]_vars

-----------------------------------------------------------------------------
(* core.util: bresenham, raytrace and expand_path.  A voxel is <<x, y, z>>. *)

RECURSIVE BresenhamLoop(_, _, _, _, _)
\* the while loop of bresenham and the append after it: the axis c.k drives,
\* err_1 moves the axis c.m and err_2 the axis c.n
BresenhamLoop(line, p, err_1, err_2, c) ==
  IF p[c.k] = c.b[c.k] THEN Append(line, p)
  ELSE Let([p EXCEPT ![c.m] = IF err_1 > 0 THEN @ + c.s[c.m] ELSE @,
                     ![c.n] = IF err_2 > 0 THEN @ + c.s[c.n] ELSE @,
                     ![c.k] = @ + c.s[c.k]],
           LAMBDA q :
             BresenhamLoop(Append(line, p), q,
                           (IF err_1 > 0 THEN err_1 - 2 * c.d[c.k] ELSE err_1) + 2 * c.d[c.m],
                           (IF err_2 > 0 THEN err_2 - 2 * c.d[c.k] ELSE err_2) + 2 * c.d[c.n],
                           c))

\* the driving axis and the axes of err_1 and err_2, from dx, dy, dz
BresenhamAxes(d) ==
  IF d[1] >= d[2] /\ d[1] >= d[3] THEN <<1, 2, 3>>
  ELSE IF d[2] >= d[1] /\ d[2] >= d[3] THEN <<2, 1, 3>>
  ELSE <<3, 2, 1>>

\* a bresenham whose error terms start at 2 * dy and 2 * dz
BresenhamEarlyError(coords_a, coords_b) ==
  Let([i \in 1..3 |-> Abs(coords_b[i] - coords_a[i])], LAMBDA d :
    Let(BresenhamAxes(d), LAMBDA axes :
      BresenhamLoop(<<>>, coords_a, 2 * d[axes[2]], 2 * d[axes[3]],
                    [d |-> d, b |-> coords_b, k |-> axes[1], m |-> axes[2], n |-> axes[3],
                     s |-> [i \in 1..3 |-> IF coords_a[i] < coords_b[i] THEN 1 ELSE -1]])))

\* util.bresenham
bresenham(coords_a, coords_b) ==
  Let([i \in 1..3 |-> Abs(coords_b[i] - coords_a[i])], LAMBDA d :
    Let(BresenhamAxes(d), LAMBDA axes :
      BresenhamLoop(<<>>, coords_a, 2 * d[axes[2]] - d[axes[1]], 2 * d[axes[3]] - d[axes[1]],
                    [d |-> d, b |-> coords_b, k |-> axes[1], m |-> axes[2], n |-> axes[3],
                     s |-> [i \in 1..3 |-> IF coords_a[i] < coords_b[i] THEN 1 ELSE -1]])))

\* util.raytrace computes times as floats, t = 1.0 at coords_b.  Here a time
\* is an integer in units of 1 / TimeOne(d), which divides every border time
\* 0.5 / |d| + k / |d| exactly.
TimeOne(d) ==
  2 * (IF d[1] = 0 THEN 1 ELSE Abs(d[1])) * (IF d[2] = 0 THEN 1 ELSE Abs(d[2]))
    * (IF d[3] = 0 THEN 1 ELSE Abs(d[3]))

RECURSIVE RaytraceLoop(_, _, _, _, _)
\* the while loop of raytrace
RaytraceLoop(line, t, grid_pos, t_for_next_border, c) ==
  IF t <= c.one
  THEN Let(IF /\ t_for_next_border[1] <= t_for_next_border[2]
              /\ t_for_next_border[1] <= t_for_next_border[3] THEN 1
           ELSE IF /\ t_for_next_border[2] <= t_for_next_border[3]
                   /\ t_for_next_border[2] <= t_for_next_border[1] THEN 2
           ELSE 3,
           LAMBDA index :
             RaytraceLoop(Append(line, grid_pos), t_for_next_border[index],
                          [grid_pos EXCEPT ![index] = @ + c.step[index]],
                          [t_for_next_border EXCEPT ![index] = @ + c.t_for_one[index]], c))
  ELSE line

\* abs(1.0 / d), or 1e10 for d = 0: a time the loop never reaches (10 here)
RaytraceTimeForOne(d) ==
  [i \in 1..3 |-> IF d[i] # 0 THEN TimeOne(d) \div Abs(d[i]) ELSE 10 * TimeOne(d)]

\* a raytrace whose first border is a whole cell away (frac_start = 1)
RaytraceFromCellEdge(coords_a, coords_b) ==
  Let([i \in 1..3 |-> coords_b[i] - coords_a[i]], LAMBDA d :
    RaytraceLoop(<<>>, 0, coords_a, RaytraceTimeForOne(d),
                 [one |-> TimeOne(d), t_for_one |-> RaytraceTimeForOne(d),
                  step |-> [i \in 1..3 |-> IF d[i] >= 0 THEN 1 ELSE -1]]))

\* util.raytrace: frac_start is 0.5 on each axis, so the first border is
\* half of t_for_one away in either direction
raytrace(coords_a, coords_b) ==
  Let([i \in 1..3 |-> coords_b[i] - coords_a[i]], LAMBDA d :
    RaytraceLoop(<<>>, 0, coords_a,
                 [i \in 1..3 |-> RaytraceTimeForOne(d)[i] \div 2],
                 [one |-> TimeOne(d), t_for_one |-> RaytraceTimeForOne(d),
                  step |-> [i \in 1..3 |-> IF d[i] >= 0 THEN 1 ELSE -1]]))

RECURSIVE ExpandSegments(_, _)
\* the for loop of expand_path: expanded += bresenham(path[i], path[i + 1])
ExpandSegments(path, i) ==
  IF i >= Len(path) THEN <<>>
  ELSE bresenham(path[i], path[i + 1]) \o ExpandSegments(path, i + 1)

\* util.expand_path: the last statement appends the list path[:-1] as one
\* element
expand_path(path) ==
  IF Len(path) < 2 THEN <<>>
  ELSE Append(ExpandSegments(path, 1), SubSeq(path, 1, Len(path) - 1))

\* the endpoints: coords_b is at most MaxDelta away from coords_a on each axis
MaxDelta == 5

MaxWaypoints == 3

UtilStarts == {<<0, 0, 0>>, <<0, 1, 4>>}

WayPoints == {<<0, 0, 0>>, <<1, 1, 1>>, <<2, 2, 2>>, <<4, 2, 2>>, <<0, 2, 1>>}

RECURSIVE ListsOf(_, _)
\* the lists of at most n elements of S
ListsOf(S, n) ==
  IF n = 0 THEN {<<>>}
  ELSE ListsOf(S, n - 1) \cup {Append(l, x) : l \in {k \in ListsOf(S, n - 1) : Len(k) = n - 1}, x \in S}

UtilInputs ==
  {[coords_a |-> a, coords_b |-> <<a[1] + dx, a[2] + dy, a[3] + dz>>, path |-> <<>>] :
     a \in UtilStarts, dx \in (0 - MaxDelta)..MaxDelta, dy \in (0 - MaxDelta)..MaxDelta,
     dz \in (0 - MaxDelta)..MaxDelta}
  \cup
  {[coords_a |-> <<0, 0, 0>>, coords_b |-> <<0, 0, 0>>, path |-> p] :
     p \in ListsOf(WayPoints, MaxWaypoints)}

\* cfg holds the arguments of the calls
UtilInit ==
  \E c \in UtilInputs :
    /\ nodes = <<>>
    /\ dims = <<>>
    /\ cfg = c
    /\ pc = "idle"
    /\ runs = 0
    /\ open_list = <<>>
    /\ end_open_list = <<>>
    /\ phase = "fwd"
    /\ ida = NoIda
    /\ result = NoResult
    /\ fresh = NoResult
    /\ searchNo = 0
    /\ elapsed = 0
    /\ cleaned = {}
    /\ lastOp = "init"

\* bresenham(coords_a, coords_b)
Bresenham ==
  /\ lastOp = "init"
  /\ result' = [kind |-> "bresenham", path |-> bresenham(cfg.coords_a, cfg.coords_b),
                runs |-> 0]
  /\ lastOp' = "bresenham"
  /\ UNCHANGED <<nodes, dims, cfg, pc, runs, open_list, end_open_list, phase, ida, fresh,
                 searchNo, elapsed, cleaned>>

\* raytrace(coords_a, coords_b)
Raytrace ==
  /\ lastOp = "init"
  /\ result' = [kind |-> "raytrace", path |-> raytrace(cfg.coords_a, cfg.coords_b),
                runs |-> 0]
  /\ lastOp' = "raytrace"
  /\ UNCHANGED <<nodes, dims, cfg, pc, runs, open_list, end_open_list, phase, ida, fresh,
                 searchNo, elapsed, cleaned>>

\* expand_path(path)
ExpandPath ==
  /\ lastOp = "init"
  /\ result' = [kind |-> "expand_path", path |-> expand_path(cfg.path), runs |-> 0]
  /\ lastOp' = "expand_path"
  /\ UNCHANGED <<nodes, dims, cfg, pc, runs, open_list, end_open_list, phase, ida, fresh,
                 searchNo, elapsed, cleaned>>

UtilNext == Bresenham \/ Raytrace \/ ExpandPath

UtilSpec == UtilInit /\ [][UtilNext]_vars

-----------------------------------------------------------------------------
(* core.util: smoothen_path and line_of_sight on a grid.  cfg.path is the   *)
(* path argument, its first and last voxels the nodes of line_of_sight.     *)

\* for test_coord in line[1:]: if not grid.walkable(...): blocked = True
LineBlocked(N, D, line) ==
  \E j \in 2..Len(line) : ~walkable(N, D, At(line[j], NoGridId))

RECURSIVE SmoothenLoop(_, _, _, _, _)
\* for coord in path[2:-1] (here path[3] .. path[Len(path) - 1]), then
\* new_path.append(path[-1]); s is (sx, sy, sz)
SmoothenLoop(c, i, s, last_valid, new_path) ==
  IF i > Len(c.path) - 1 THEN Append(new_path, c.path[Len(c.path)])
  ELSE IF ~LineBlocked(c.N, c.D, IF c.use_raytrace THEN raytrace(s, c.path[i])
                                 ELSE bresenham(s, c.path[i]))
       THEN SmoothenLoop(c, i + 1, last_valid, c.path[i], Append(new_path, last_valid))
       ELSE SmoothenLoop(c, i + 1, s, c.path[i], new_path)

\* a smoothen_path that starts its output with the second waypoint
SmoothenPathFromSecond(N, D, path, use_raytrace) ==
  SmoothenLoop([N |-> N, D |-> D, path |-> path, use_raytrace |-> use_raytrace],
               3, path[1], path[2], <<path[2]>>)

\* util.smoothen_path on a path of at least 2 voxels
smoothen_path(N, D, path, use_raytrace) ==
  SmoothenLoop([N |-> N, D |-> D, path |-> path, use_raytrace |-> use_raytrace],
               3, path[1], path[2], <<path[1]>>)

\* a line_of_sight that walks the line of bresenham
LineOfSightByBresenham(N, D, a, b) ==
  \/ a = b
  \/ Let(bresenham(a, b), LAMBDA line :
       \A j \in 2..(Len(line) - 1) : walkable(N, D, At(line[j], NoGridId)))

\* util.line_of_sight (not in src/): true for a = b; otherwise the line of
\* raytrace is walked and an intermediate voxel that is not walkable gives
\* false
line_of_sight(N, D, a, b) ==
  \/ a = b
  \/ Let(raytrace(a, b), LAMBDA line :
       \A j \in 2..(Len(line) - 1) : walkable(N, D, At(line[j], NoGridId)))

LineDims == <<3, 2, 1>>

MaxPathLen == 4

\* the grid without obstacles and the grids with one
LineMatrices ==
  {[b \in Box3(LineDims[1], LineDims[2], LineDims[3]) |-> IF b \in O THEN 0 ELSE 1] :
     O \in UpTo(Box3(LineDims[1], LineDims[2], LineDims[3]), 1)}

\* the paths of 2 to MaxPathLen voxels of the grid
LinePaths ==
  {p \in ListsOf(Box3(LineDims[1], LineDims[2], LineDims[3]), MaxPathLen) : Len(p) >= 2}

LineInit ==
  \E m \in LineMatrices, p \in LinePaths, r \in BOOLEAN :
    /\ nodes = Grid(LineDims, m).nodes
    /\ dims = Grid(LineDims, m).dims
    /\ cfg = [path |-> p, use_raytrace |-> r]
    /\ pc = "idle"
    /\ runs = 0
    /\ open_list = <<>>
    /\ end_open_list = <<>>
    /\ phase = "fwd"
    /\ ida = NoIda
    /\ result = NoResult
    /\ fresh = NoResult
    /\ searchNo = 0
    /\ elapsed = 0
    /\ cleaned = {NoGridId}
    /\ lastOp = "init"

\* smoothen_path(grid, path, use_raytrace)
SmoothenPath ==
  /\ lastOp = "init"
  /\ result' = [kind |-> "smoothen_path", runs |-> 0,
                path |-> smoothen_path(nodes, dims, cfg.path, cfg.use_raytrace)]
  /\ lastOp' = "smoothen_path"
  /\ UNCHANGED <<nodes, dims, cfg, pc, runs, open_list, end_open_list, phase, ida, fresh,
                 searchNo, elapsed, cleaned>>

\* line_of_sight(grid, node1, node2) on the ends of the path
LineOfSight ==
  /\ lastOp = "init"
  /\ result' = [kind |-> "line_of_sight", runs |-> 0, path |-> <<>>,
                value |-> line_of_sight(nodes, dims, cfg.path[1], cfg.path[Len(cfg.path)])]
  /\ lastOp' = "line_of_sight"
  /\ UNCHANGED <<nodes, dims, cfg, pc, runs, open_list, end_open_list, phase, ida, fresh,
                 searchNo, elapsed, cleaned>>

LineNext == SmoothenPath \/ LineOfSight

LineSpec == LineInit /\ [][LineNext]_vars

-----------------------------------------------------------------------------
(* GridNode.connect on the nodes of two grids: the connect calls are made   *)
(* one after another, then neighbors is called.  cfg.calls lists the calls. *)

MaxConnects == 2

\* the nodes connect is called on: two nodes of either grid
ConnectCells == {<<2, 2, 2, 0>>, <<0, 0, 0, 0>>, <<2, 2, 2, 1>>, <<0, 0, 0, 1>>}

\* grid0 and grid1 of test_connect_grids before any connect
UnconnectedNodes ==
  [c \in CellsOf(WorldDims, 0) \cup CellsOf(WorldDims, 1) |->
     build_nodes(WorldDims, WORLD_MATRIX, FALSE, c[4])[c]]

ConnectInit ==
  /\ nodes = UnconnectedNodes
  /\ dims = [g \in {0, 1} |-> WorldDims]
  /\ cfg = [calls |-> <<>>]
  /\ pc = "idle"
  /\ runs = 0
  /\ open_list = <<>>
  /\ end_open_list = <<>>
  /\ phase = "fwd"
  /\ ida = NoIda
  /\ result = NoResult
  /\ fresh = NoResult
  /\ searchNo = 0
  /\ elapsed = 0
  /\ cleaned = {0, 1}
  /\ lastOp = "init"

\* a.connect(b)
Connect ==
  /\ lastOp \in {"init", "connect"}
  /\ Len(cfg.calls) < MaxConnects
  /\ \E a \in ConnectCells, b \in ConnectCells :
       /\ a # b
       /\ nodes' = connect(nodes, a, b)
       /\ cfg' = [cfg EXCEPT !.calls = Append(@, <<a, b>>)]
  /\ lastOp' = "connect"
  /\ UNCHANGED <<dims, pc, runs, open_list, end_open_list, phase, ida, result, fresh,
                 searchNo, elapsed, cleaned>>

\* grid.neighbors(node, dm) after the connect calls
ConnectNeighbors ==
  /\ lastOp = "connect"
  /\ \E c \in ConnectCells, dm \in Policies :
       result' = [kind |-> "neighbors", path |-> neighbors(nodes, dims, c, dm), runs |-> 0,
                  of |-> c, dm |-> dm]
  /\ lastOp' = "neighbors"
  /\ UNCHANGED <<nodes, dims, cfg, pc, runs, open_list, end_open_list, phase, ida, fresh,
                 searchNo, elapsed, cleaned>>

ConnectNext == Connect \/ ConnectNeighbors

ConnectSpec == ConnectInit /\ [][ConnectNext]_vars

-----------------------------------------------------------------------------
(* MinimumSpanningTree.tree and find_path called on one finder object.      *)
(* searchNo counts the find_path calls made on the finder: Finder.__init__  *)
(* only annotates self.runs and self.start_time, find_path assigns them, so *)
(* the finder has no attribute runs while searchNo = 0.                     *)

\* start.opened = True; open_list = [start]: the first statements of itertree
TreeOpen(N, start) == [N EXCEPT ![start].opened = 1]

TreeDims == <<3, 3, 1>>

TreeStarts == {<<0, 0, 0>>, <<1, 1, 0>>}

TreeEnds == {<<2, 2, 0>>, <<0, 1, 0>>}

\* the all-walkable 3x3x3 grid of test_msp, and 3x3x1 grids with at most one obstacle
TreeGrids ==
  {Grid(<<3, 3, 3>>, [c \in Box3(3, 3, 3) |-> 1])}
    \cup {Grid(TreeDims, [c \in Box3(TreeDims[1], TreeDims[2], TreeDims[3]) |->
                            IF c \in O THEN 0 ELSE 1]) :
            O \in UpTo(Box3(TreeDims[1], TreeDims[2], TreeDims[3]), 1)}

TreeInit ==
  /\ \E g \in TreeGrids, s \in TreeStarts, e \in TreeEnds, dm \in Policies :
       /\ g.nodes[At(s, NoGridId)].walkable
       /\ nodes = g.nodes
       /\ dims = g.dims
       /\ cfg = Config("MinimumSpanningTree", dm, MAX_RUNS, TIME_LIMIT,
                       At(s, NoGridId), At(e, NoGridId))
  /\ pc = "idle"
  /\ runs = 0
  /\ open_list = <<>>
  /\ end_open_list = <<>>
  /\ phase = "fwd"
  /\ ida = NoIda
  /\ result = NoResult
  /\ fresh = NoResult
  /\ searchNo = 0
  /\ elapsed = 0
  /\ cleaned = {NoGridId}
  /\ lastOp = "init"

\* finder.tree(grid, start) is called on a clean grid
TreeCall ==
  /\ pc = "idle"
  /\ runs < RunCap
  /\ nodes' = TreeOpen(nodes, cfg.start)
  /\ open_list' = <<cfg.start>>
  /\ result' = [kind |-> "running", path |-> <<>>, runs |-> runs]
  /\ pc' = "running"
  /\ cleaned' = {}
  /\ lastOp' = "tree"
  /\ UNCHANGED <<dims, cfg, runs, end_open_list, phase, ida, fresh, searchNo, elapsed>>

\* finder.find_path(start, end, grid) is called on a clean grid
TreeFindPathCall ==
  /\ pc = "idle"
  /\ searchNo < MaxSearches
  /\ runs' = 0
  /\ searchNo' = searchNo + 1
  /\ nodes' = TreeOpen(nodes, cfg.start)
  /\ open_list' = <<cfg.start>>
  /\ result' = [kind |-> "running", path |-> <<>>, runs |-> 0]
  /\ pc' = "running"
  /\ cleaned' = {}
  /\ lastOp' = "find_path"
  /\ UNCHANGED <<dims, cfg, end_open_list, phase, ida, fresh, elapsed>>

\* the call is left with an exception, or with the list or the path it returns
TreeReturn(kind, path, N, r) ==
  /\ result' = [kind |-> kind, path |-> path, runs |-> r]
  /\ pc' = IF kind \in {"tree", "path"} THEN "returned" ELSE "raised"
  /\ nodes' = N
  /\ open_list' = <<>>
  /\ runs' = r

\* one iteration of the loop of itertree, consumed by tree or by find_path;
\* result.path holds the nodes yielded so far
TreeIter ==
  /\ pc = "running"
  /\ UNCHANGED <<dims, cfg, end_open_list, phase, ida, fresh, searchNo, elapsed, cleaned,
                 lastOp>>
  /\ IF searchNo = 0
     THEN TreeReturn("AttributeError", <<>>, nodes, runs)
     ELSE \E k \in {keep_running(runs + 1, cfg.max_runs, elapsed, cfg.time_limit)} :
            IF k # "ok" THEN TreeReturn(k, <<>>, nodes, runs + 1)
            ELSE \E it \in {itertree(nodes, dims, open_list, cfg)} :
                   \E out \in {Append(result.path, it.node)} :
                     IF lastOp = "find_path" /\ it.node = cfg.end
                     THEN TreeReturn("path", backtrace(it.closedN, it.node), it.closedN,
                                     runs + 1)
                     ELSE IF it.ol = <<>>
                     THEN TreeReturn(IF lastOp = "tree" THEN "tree" ELSE "path",
                                     IF lastOp = "tree" THEN out ELSE <<>>, it.N, runs + 1)
                     ELSE /\ nodes' = it.N
                          /\ open_list' = it.ol
                          /\ runs' = runs + 1
                          /\ result' = [result EXCEPT !.path = out]
                          /\ pc' = pc

\* grid.cleanup()
TreeCleanup ==
  /\ pc \in {"returned", "raised"}
  /\ nodes' = [c \in DOMAIN nodes |-> NodeCleanup(nodes[c])]
  /\ cleaned' = DOMAIN dims
  /\ pc' = "idle"
  /\ lastOp' = "Grid.cleanup"
  /\ UNCHANGED <<dims, cfg, runs, open_list, end_open_list, phase, ida, result, fresh,
                 searchNo, elapsed>>

TreeNext == TreeCall \/ TreeFindPathCall \/ TreeIter \/ TreeCleanup

TreeSpec == TreeInit /\ [][TreeNext]_vars

-----------------------------------------------------------------------------
(* IDAStarFinder.find_path with and without a budget of runs, on grids      *)
(* where the end may be out of reach.  find_path is a sequential loop: once *)
(* called it keeps running, which is the weak fairness of IDAStarStep.      *)

\* the finite values of max_runs
IDARuns == {1, 3, 40}

IDAInstances ==
  {Instance(Grid(SmallDims, m),
            Config("IDAStarFinder", dm, max_runs, TIME_LIMIT, At(SmallStart, NoGridId),
                   At(e, NoGridId))) :
     m \in SmallMatrices, dm \in {DiagonalMovement.never, DiagonalMovement.always},
     max_runs \in IDARuns \cup {MAX_RUNS}, e \in SmallEnds}
    \cup {Instance(Grid(WallDims, WALL_MATRIX),
                   Config("IDAStarFinder", dm, max_runs, TIME_LIMIT, <<0, 0, 0, NoGridId>>,
                          <<2, 2, 0, NoGridId>>)) :
            dm \in Policies, max_runs \in IDARuns \cup {MAX_RUNS}}

IDAInit ==
  \E inst \in IDAInstances :
    /\ nodes = inst.nodes
    /\ dims = inst.dims
    /\ cfg = inst.cfg
    /\ pc = "idle"
    /\ runs = 0
    /\ open_list = <<>>
    /\ end_open_list = <<>>
    /\ phase = "fwd"
    /\ ida = NoIda
    /\ result = NoResult
    /\ fresh = NoResult
    /\ searchNo = 0
    /\ elapsed = 0
    /\ cleaned = DOMAIN inst.dims
    /\ lastOp = "init"

IDASpecNext == FindPath \/ IDAStarStep

IDASpec == IDAInit /\ [][IDASpecNext]_vars /\ WF_vars(IDAStarStep)

-----------------------------------------------------------------------------
(* Finder.process_node, one call per step: the loop of                      *)
(* AStarFinder.check_neighbors is taken apart.  In this specification ida   *)
(* holds the position of that loop, [node, nbrs, i], phase is "fwd" at the  *)
(* test of find_path's loop and "loop" inside check_neighbors, and result   *)
(* holds the arguments of the last process_node call and the nodes and the  *)
(* open list it found.  The budgets of these searches are unlimited, so     *)
(* keep_running never raises.                                               *)

ProcessFinders == {"AStarFinder", "DijkstraFinder", "BestFirst"}

ProcessInstances ==
  {inst \in SmallInstances :
     /\ inst.cfg.finder \in ProcessFinders
     /\ inst.cfg.dm \in {DiagonalMovement.never, DiagonalMovement.always}}

ProcessInit ==
  \E inst \in ProcessInstances :
    /\ nodes = inst.nodes
    /\ dims = inst.dims
    /\ cfg = inst.cfg
    /\ pc = "idle"
    /\ runs = 0
    /\ open_list = <<>>
    /\ end_open_list = <<>>
    /\ phase = "fwd"
    /\ ida = NoIda
    /\ result = NoResult
    /\ fresh = NoResult
    /\ searchNo = 0
    /\ elapsed = 0
    /\ cleaned = DOMAIN inst.dims
    /\ lastOp = "init"

\* find_path returns
ProcessReturn(path, N) ==
  /\ pc' = "returned"
  /\ result' = [kind |-> "path", path |-> path, runs |-> runs']
  /\ nodes' = N
  /\ open_list' = <<>>
  /\ ida' = NoIda
  /\ phase' = "fwd"

\* the loop of find_path: its test, and check_neighbors up to the loop over
\* the neighbors
ProcessPop ==
  /\ pc = "running"
  /\ phase = "fwd"
  /\ lastOp' = "pop"
  /\ UNCHANGED <<dims, cfg, searchNo, cleaned, elapsed, end_open_list, fresh>>
  /\ IF open_list = <<>>
     THEN /\ runs' = runs
          /\ ProcessReturn(<<>>, nodes)
     ELSE /\ runs' = runs + 1
          /\ \E node \in {nsmallest1(nodes, open_list)} :
               \E N1 \in {[nodes EXCEPT ![node].closed = TRUE]} :
                 IF node = cfg.end THEN ProcessReturn(backtrace(N1, node), N1)
                 ELSE /\ nodes' = N1
                      /\ open_list' = ListRemove(open_list, node)
                      /\ ida' = [node |-> node, nbrs |-> neighbors(N1, dims, node, cfg.dm),
                                 i |-> 1]
                      /\ phase' = "loop"
                      /\ UNCHANGED <<pc, result>>

\* one turn of the loop over the neighbors: the neighbor is closed and
\* skipped, or process_node is called on it; after the last one the loop is left
ProcessNeighbor ==
  /\ pc = "running"
  /\ phase = "loop"
  /\ UNCHANGED <<dims, cfg, searchNo, cleaned, elapsed, end_open_list, fresh, pc, runs>>
  /\ IF ida.i > Len(ida.nbrs)
     THEN /\ phase' = "fwd"
          /\ ida' = NoIda
          /\ lastOp' = "loop end"
          /\ UNCHANGED <<nodes, open_list, result>>
     ELSE /\ phase' = phase
          /\ ida' = [ida EXCEPT !.i = @ + 1]
          /\ \E neighbor \in {ida.nbrs[ida.i]} :
               IF nodes[neighbor].closed
               THEN /\ lastOp' = "skip"
                    /\ UNCHANGED <<nodes, open_list, result>>
               ELSE \E r \in {process_node(nodes, open_list, neighbor, ida.node, cfg.end, 1,
                                           cfg.finder, cfg.dm)} :
                      /\ nodes' = r.N
                      /\ open_list' = r.ol
                      /\ lastOp' = "process_node"
                      /\ result' = [kind |-> "process_node", path |-> <<>>, runs |-> runs,
                                    node |-> neighbor, parent |-> ida.node,
                                    N |-> nodes, ol |-> open_list]

ProcessNext == FindPath \/ ProcessPop \/ ProcessNeighbor

ProcessSpec == ProcessInit /\ [][ProcessNext]_vars

-----------------------------------------------------------------------------
(* ThetaStarFinder: AStarFinder with process_node overridden.  find_path and *)
(* check_neighbors are the inherited ones, so open_list is the plain list of *)
(* Finder.find_path; diagonal_movement is always and weighted is False.      *)

\* grid.grids[node.grid_id] if hasattr(grid, "grids") else grid
GridToUse(N, D, gid) ==
  [dims |-> [g \in {NoGridId} |-> D[gid]],
   nodes |-> [c \in CellsOf(D[gid], NoGridId) |-> N[At(c, gid)]]]

\* the line_of_sight(grid_to_use, node, parent.parent) of process_node
ThetaLineOfSight(N, D, node, other) ==
  Let(GridToUse(N, D, node[4]), LAMBDA g : line_of_sight(g.nodes, g.dims, node, other))

\* a process_node that links to the grandparent without asking line_of_sight
ThetaProcessNodeNoSight(N, D, ol, node, parent, end, open_value, c) ==
  LET gp == N[parent].parent
  IN IF gp # None /\ gp[4] = node[4]
     THEN LET ng == N[gp].g + calc_cost(N, gp, node, FALSE)
          IN IF N[node].opened = 0 \/ ng < N[node].g
             THEN LET h == IF N[node].h # 0 THEN N[node].h
                           ELSE apply_heuristic(c.finder, c.dm, node, end)
                  IN [N |-> [N EXCEPT ![node].g = ng, ![node].h = h, ![node].f = ng + h,
                                      ![node].parent = gp],
                      ol |-> ol, raised |-> TRUE]
             ELSE [N |-> N, ol |-> ol, raised |-> FALSE]
     ELSE Let(process_node(N, ol, node, parent, end, 1, c.finder, c.dm),
              LAMBDA r : [N |-> r.N, ol |-> r.ol, raised |-> FALSE])

\* ThetaStarFinder.process_node.  raised: open_list.push_node or
\* open_list.remove_node is called on the list of Finder.find_path, which has
\* neither, after g, h, f and parent were assigned: AttributeError
ThetaProcessNode(N, D, ol, node, parent, end, open_value, c) ==
  LET gp == N[parent].parent
  IN IF gp # None /\ gp[4] = node[4] /\ ThetaLineOfSight(N, D, node, gp)
     THEN LET ng == N[gp].g + calc_cost(N, gp, node, FALSE)
          IN IF N[node].opened = 0 \/ ng < N[node].g
             THEN LET h == IF N[node].h # 0 THEN N[node].h
                           ELSE apply_heuristic(c.finder, c.dm, node, end)
                  IN [N |-> [N EXCEPT ![node].g = ng, ![node].h = h, ![node].f = ng + h,
                                      ![node].parent = gp],
                      ol |-> ol, raised |-> TRUE]
             ELSE [N |-> N, ol |-> ol, raised |-> FALSE]
     ELSE Let(process_node(N, ol, node, parent, end, 1, c.finder, c.dm),
              LAMBDA r : [N |-> r.N, ol |-> r.ol, raised |-> FALSE])

ThetaDims == {<<3, 1, 1>>, <<3, 2, 1>>, <<3, 3, 1>>}

ThetaStart == <<0, 0, 0>>

ThetaConfig(start, end) ==
  Config("ThetaStarFinder", DiagonalMovement.always, MAX_RUNS, TIME_LIMIT, start, end)

\* one grid with a few obstacles, any cell of it the end
ThetaGridInstances ==
  UNION {{Instance(Grid(d, [c \in Box3(d[1], d[2], d[3]) |-> IF c \in O THEN 0 ELSE 1]),
                   ThetaConfig(At(ThetaStart, NoGridId), At(e, NoGridId))) :
            O \in UpTo(Box3(d[1], d[2], d[3]) \ {ThetaStart}, MaxObstacles),
            e \in Box3(d[1], d[2], d[3])} : d \in ThetaDims}

\* a world of a grid of one cell connected to the first cell of a row of three
ThetaRow ==
  LET d == (0 :> <<1, 1, 1>>) @@ (1 :> <<3, 1, 1>>)
      N0 == [c \in CellsOf(d[0], 0) \cup CellsOf(d[1], 1) |->
               build_nodes(d[c[4]], [v \in Box3(d[c[4]][1], 1, 1) |-> 1], FALSE, c[4])[c]]
  IN [dims |-> d, nodes |-> connect(N0, <<0, 0, 0, 0>>, <<0, 0, 0, 1>>)]

\* the row world from its one-cell grid, and test_connect_theta_star
ThetaWorldInstances ==
  {Instance(ThetaRow, [ThetaConfig(<<0, 0, 0, 0>>, <<x, 0, 0, 1>>) EXCEPT !.world = TRUE]) :
     x \in 0..2}
  \cup {Instance(World, [ThetaConfig(<<2, 0, 0, 0>>, <<2, 0, 0, 1>>) EXCEPT !.world = TRUE])}

ThetaInit ==
  \E inst \in ThetaGridInstances \cup ThetaWorldInstances :
    /\ nodes = inst.nodes
    /\ dims = inst.dims
    /\ cfg = inst.cfg
    /\ pc = "idle"
    /\ runs = 0
    /\ open_list = <<>>
    /\ end_open_list = <<>>
    /\ phase = "fwd"
    /\ ida = NoIda
    /\ result = NoResult
    /\ fresh = NoResult
    /\ searchNo = 0
    /\ elapsed = 0
    /\ cleaned = DOMAIN inst.dims
    /\ lastOp = "init"

\* one turn of the loop over the neighbors in the inherited check_neighbors:
\* the neighbor is closed and skipped, or self.process_node is called on it
ThetaNeighbor ==
  /\ pc = "running"
  /\ phase = "loop"
  /\ UNCHANGED <<dims, cfg, searchNo, cleaned, elapsed, end_open_list, fresh, runs>>
  /\ IF ida.i > Len(ida.nbrs)
     THEN /\ phase' = "fwd"
          /\ ida' = NoIda
          /\ lastOp' = "loop end"
          /\ UNCHANGED <<nodes, open_list, result, pc>>
     ELSE /\ phase' = phase
          /\ ida' = [ida EXCEPT !.i = @ + 1]
          /\ \E neighbor \in {ida.nbrs[ida.i]} :
               IF nodes[neighbor].closed
               THEN /\ lastOp' = "skip"
                    /\ UNCHANGED <<nodes, open_list, result, pc>>
               ELSE \E r \in {ThetaProcessNode(nodes, dims, open_list, neighbor, ida.node,
                                               cfg.end, 1, cfg)} :
                      /\ nodes' = r.N
                      /\ open_list' = r.ol
                      /\ lastOp' = "process_node"
                      /\ pc' = IF r.raised THEN "raised" ELSE pc
                      /\ result' = [kind |-> IF r.raised THEN "AttributeError"
                                             ELSE "process_node",
                                    path |-> <<>>, runs |-> runs,
                                    node |-> neighbor, parent |-> ida.node,
                                    N |-> nodes, ol |-> open_list]

ThetaNext == FindPath \/ ProcessPop \/ ThetaNeighbor

ThetaSpec == ThetaInit /\ [][ThetaNext]_vars

-----------------------------------------------------------------------------
(* Searches that expand one node per iteration, on grids where any cell,     *)
(* the start included, may be an obstacle: find_path does not test whether   *)
(* start is walkable.                                                        *)

ExpandFinders == GenericFinders \cup {"MinimumSpanningTree"}

ExpandDims == <<1, 2, 2>>

ExpandInstances ==
  LET box == Box3(ExpandDims[1], ExpandDims[2], ExpandDims[3])
  IN {Instance(Grid(ExpandDims, [c \in box |-> IF c \in O THEN 0 ELSE 1]),
               Config(fk, dm, MAX_RUNS, TIME_LIMIT, At(SmallStart, NoGridId), At(e, NoGridId))) :
        O \in UpTo(box, MaxObstacles), e \in box, fk \in ExpandFinders,
        dm \in {DiagonalMovement.never, DiagonalMovement.always}}

ExpandInit ==
  \E inst \in ExpandInstances :
    /\ nodes = inst.nodes
    /\ dims = inst.dims
    /\ cfg = inst.cfg
    /\ pc = "idle"
    /\ runs = 0
    /\ open_list = <<>>
    /\ end_open_list = <<>>
    /\ phase = "fwd"
    /\ ida = NoIda
    /\ result = NoResult
    /\ fresh = NoResult
    /\ searchNo = 0
    /\ elapsed = 0
    /\ cleaned = DOMAIN inst.dims
    /\ lastOp = "init"

ExpandNext == FindPath \/ GenericStep \/ MSTStep

ExpandSpec == ExpandInit /\ [][ExpandNext]_vars

-----------------------------------------------------------------------------
(* Grid.neighbors on 2x2x2 grids with any set of obstacles: every cell is a  *)
(* straight, edge or corner neighbor of every other.                         *)

SymmetryDims == <<2, 2, 2>>

SymmetryBoxInit ==
  \E c \in CellsOf(SymmetryDims, NoGridId), dm \in Policies :
   \E O \in SUBSET Box3(SymmetryDims[1], SymmetryDims[2], SymmetryDims[3]) :
    \E g \in {Grid(SymmetryDims,
                   [b \in Box3(SymmetryDims[1], SymmetryDims[2], SymmetryDims[3]) |->
                      IF b \in O THEN 0 ELSE 1])} :
      /\ nodes = g.nodes
      /\ dims = g.dims
      /\ cfg = Config("none", dm, MAX_RUNS, TIME_LIMIT, c, c)
      /\ pc = "idle"
      /\ runs = 0
      /\ open_list = <<>>
      /\ end_open_list = <<>>
      /\ phase = "fwd"
      /\ ida = NoIda
      /\ result = NoResult
      /\ fresh = NoResult
      /\ searchNo = 0
      /\ elapsed = 0
      /\ cleaned = {NoGridId}
      /\ lastOp = "init"

SymmetryInit == NeighborsInit \/ SymmetryBoxInit

SymmetrySpec == SymmetryInit /\ [][NeighborsNext]_vars

-----------------------------------------------------------------------------
(* Properties *)

Range(s) == {s[i] : i \in 1..Len(s)}

\* the nodes whose search fields differ from those of a new node
Dirty(N) == {c \in DOMAIN N : \E k \in DOMAIN CleanFields : N[c][k] # CleanFields[k]}

AllClean(N) == Dirty(N) = {}

Least(S) == CHOOSE m \in S : \A n \in S : m <= n

\* find_path has just returned or raised
JustFinished == pc \in {"returned", "raised"} /\ lastOp = "step"

Unlimited == cfg.max_runs = MAX_RUNS /\ cfg.time_limit = TIME_LIMIT

RECURSIVE ReachFrom(_, _, _, _, _)
ReachFrom(N, D, dm, seen, frontier) ==
  IF frontier = {} THEN seen
  ELSE Let(UNION {Range(neighbors(N, D, u, dm)) : u \in frontier} \ seen,
           LAMBDA new : ReachFrom(N, D, dm, seen \cup new, new))

\* the cells that chains of neighbors() lead to from start
Reachable(N, D, start, dm) == ReachFrom(N, D, dm, {start}, {start})

RECURSIVE PathCostFrom(_, _, _)
PathCostFrom(N, path, i) ==
  IF i >= Len(path) THEN 0
  ELSE calc_cost(N, path[i], path[i + 1], TRUE) + PathCostFrom(N, path, i + 1)

\* the sum over the steps (u, v) of a path of calc_cost(u, v, weighted=True)
PathCost(N, path) == PathCostFrom(N, path, 1)

RECURSIVE CheapestFrom(_, _, _, _, _)
\* relax the steps out of the cells whose cost went down, until none goes down
CheapestFrom(N, D, dm, dist, frontier) ==
  IF frontier = {} THEN dist
  ELSE Let(UNION {{<<v, dist[u] + calc_cost(N, u, v, TRUE)>> :
                     v \in Range(neighbors(N, D, u, dm))} : u \in frontier},
           LAMBDA offers :
             Let([c \in DOMAIN N |->
                    Least({dist[c]} \cup {o[2] : o \in {q \in offers : q[1] = c}})],
                 LAMBDA next :
                   CheapestFrom(N, D, dm, next, {c \in DOMAIN N : next[c] < dist[c]})))

\* the least PathCost of a path of neighbor steps from start to each cell
Cheapest(N, D, start, dm) ==
  CheapestFrom(N, D, dm, [c \in DOMAIN N |-> IF c = start THEN 0 ELSE Infinity], {start})

\* the grid of the state is the one built from matrix
IsGridOf(matrix) ==
  /\ DOMAIN dims = {NoGridId}
  /\ DOMAIN nodes = {At(c, NoGridId) : c \in DOMAIN matrix}
  /\ \A c \in DOMAIN matrix : nodes[At(c, NoGridId)].weight = matrix[c]

C1Finders == {"AStarFinder", "DijkstraFinder", "BestFirst", "BreadthFirstFinder",
              "MinimumSpanningTree", "IDAStarFinder"}

\* C1: a non-empty path returned by A*, Dijkstra, BestFirst, BreadthFirst,
\* MinimumSpanningTree or IDA* starts at start, ends at end, has no None slot,
\* and each of its steps (u, v) has v in neighbors(u, policy), so that every
\* cell after the first is walkable.
C1_ReturnedPathIsAWalk ==
  (pc = "returned" /\ lastOp = "step" /\ cfg.finder \in C1Finders /\ result.path # <<>>) =>
    /\ result.path[1] = cfg.start
    /\ result.path[Len(result.path)] = cfg.end
    /\ \A i \in 1..Len(result.path) : result.path[i] # None
    /\ \A i \in 1..(Len(result.path) - 1) :
         result.path[i + 1] \in Range(neighbors(nodes, dims, result.path[i], cfg.dm))
    /\ \A i \in 2..Len(result.path) : nodes[result.path[i]].walkable

C1_Witness ==
  /\ pc = "returned" /\ lastOp = "step"
  /\ cfg.finder = "IDAStarFinder"
  /\ cfg.dm = DiagonalMovement.never
  /\ Len(result.path) = 9

\* C2: the path A* and Dijkstra return has the least total cost among the
\* paths from start to end that the policy allows, the cost of a path being
\* the sum of calc_cost(u, v, weighted=True) over its steps.
C2_ReturnedPathIsCheapest ==
  (pc = "returned" /\ lastOp = "step" /\ cfg.finder \in {"AStarFinder", "DijkstraFinder"}
     /\ result.path # <<>> /\ \A c \in DOMAIN nodes : nodes[c].weight >= 1) =>
    PathCost(nodes, result.path) = Cheapest(nodes, dims, cfg.start, cfg.dm)[cfg.end]

\* C3: on the corridor fixture, from (0,0,0) to (4,4,0), every finder returns
\* a path of exactly 9 cells under the policy never and of exactly 5 cells
\* under the policy always.
C3_FixturePathLengths ==
  (pc = "returned" /\ lastOp = "step" /\ IsGridOf(SIMPLE_MATRIX)
     /\ cfg.start = <<0, 0, 0, NoGridId>> /\ cfg.end = <<4, 4, 0, NoGridId>>) =>
    /\ cfg.dm = DiagonalMovement.never => Len(result.path) = 9
    /\ cfg.dm = DiagonalMovement.always => Len(result.path) = 5

C4Finders == {"AStarFinder", "DijkstraFinder", "BestFirst", "BreadthFirstFinder",
              "MinimumSpanningTree"}

\* a search of A*, Dijkstra, BestFirst, BreadthFirst or MinimumSpanningTree with
\* unlimited budgets, running or just over
C4Search ==
  /\ searchNo >= 1
  /\ cfg.finder \in C4Finders
  /\ Unlimited
  /\ pc = "running" \/ lastOp = "step"

\* C4: with unlimited budgets and an end out of reach of start, A*, Dijkstra,
\* BestFirst, BreadthFirst and MinimumSpanningTree stop after at most as many
\* iterations as start reaches cells, raise nothing, and return the empty path
\* with runs the number of nodes expanded.
C4_UnreachableEndGivesEmptyPath ==
  C4Search =>
    \A reach \in {Reachable(nodes, dims, cfg.start, cfg.dm)} :
      cfg.end \notin reach =>
        /\ pc \in {"running", "returned"}
        /\ pc = "running" => runs < Cardinality(reach)
        /\ pc = "returned" =>
             /\ result.path = <<>>
             /\ result.runs = runs
             /\ result.runs = Cardinality({c \in DOMAIN nodes : nodes[c].closed})

C4_Witness ==
  /\ C4Search
  /\ cfg.end \notin Reachable(nodes, dims, cfg.start, cfg.dm)
  /\ pc = "returned"
  /\ cfg.finder = "MinimumSpanningTree"
  /\ nodes[cfg.end].walkable
  /\ result.runs >= 3

\* C5: with max_runs >= 1 the counter runs never exceeds max_runs, and a
\* search that has not returned a path when runs reaches max_runs raises
\* ExecutionRunsException and returns no path.
C5_RunsNeverExceedMaxRuns ==
  (cfg.max_runs >= 1 /\ searchNo >= 1) =>
    /\ runs <= cfg.max_runs
    /\ pc = "running" => runs < cfg.max_runs
    /\ (JustFinished /\ runs = cfg.max_runs) =>
         result.kind = "ExecutionRunsException" /\ result.path = <<>>
    /\ result.kind = "ExecutionRunsException" => result.runs = cfg.max_runs

C5_Witness ==
  /\ JustFinished
  /\ cfg.finder = "BiAStarFinder"
  /\ cfg.max_runs = 3
  /\ result.kind = "ExecutionRunsException"
  /\ result.runs = 3

\* C6: with max_runs > 1, when the elapsed time at the first budget check is
\* time_limit or more, find_path raises ExecutionTimeException in its first
\* iteration, runs is 1 and no node has been expanded.
C6_TimeLimitAbortsFirstIteration ==
  (searchNo >= 1 /\ lastOp = "step" /\ runs = 1 /\ cfg.max_runs > 1
     /\ elapsed >= cfg.time_limit) =>
    /\ pc = "raised"
    /\ result.kind = "ExecutionTimeException"
    /\ result.runs = 1
    /\ \A c \in DOMAIN nodes :
         ~nodes[c].closed /\ nodes[c].parent = None /\ nodes[c].retain_count = 0

C6_Witness ==
  /\ lastOp = "step" /\ runs = 1
  /\ cfg.max_runs = 2
  /\ cfg.time_limit = 1 /\ elapsed = 1
  /\ result.kind = "ExecutionTimeException"

\* C7: a finder with max_runs <= 0 has no limit on its iterations: find_path
\* never raises ExecutionRunsException.
C7_NonPositiveMaxRunsIsUnlimited ==
  cfg.max_runs <= 0 => result.kind # "ExecutionRunsException"

\* C8: find_path, then cleanup, then find_path again gives the path and the
\* run count that the first find_path gave on the new grid.
C8_CleanupRestoresFreshBehaviour ==
  (searchNo >= 2 /\ JustFinished /\ result.kind # "ExecutionTimeException"
     /\ fresh.kind # "ExecutionTimeException") =>
    result = fresh

C8_Witness ==
  /\ searchNo = 2 /\ JustFinished
  /\ cfg.finder = "DijkstraFinder"
  /\ result.kind = "path"
  /\ Len(result.path) = 11
  /\ result = fresh

\* the fields of a node that no search writes
Identity(n) == <<n.x, n.y, n.z, n.walkable, n.weight, n.grid_id, n.connections>>

\* the search state of a new node
InitialSearchState(n) ==
  /\ n.g = 0 /\ n.h = 0 /\ n.f = 0 /\ n.opened = 0
  /\ n.closed = FALSE /\ n.tested = FALSE
  /\ n.parent = None
  /\ n.retain_count = 0

\* C9: a cleanup, after completed or aborted searches, leaves every node of
\* the grids it was called on in the initial search state (g, h, f, opened 0,
\* closed and tested False, parent None, retain_count 0), changes no x, y, z,
\* walkable, weight, grid_id or connections, and touches no node of another
\* grid; World.cleanup covers every grid of the world.
C9_CleanupResetsSearchState ==
  [][lastOp' \in {"Grid.cleanup", "World.cleanup"} =>
       /\ \A c \in DOMAIN nodes :
            /\ Identity(nodes'[c]) = Identity(nodes[c])
            /\ c[4] \in cleaned' => InitialSearchState(nodes'[c])
            /\ c[4] \notin cleaned' => nodes'[c] = nodes[c]
       /\ cleaned \subseteq cleaned'
       /\ lastOp' = "World.cleanup" => cleaned' = DOMAIN dims]_vars

C9_Witness ==
  /\ lastOp = "World.cleanup"
  /\ result.kind = "path"
  /\ result.runs >= 5
  /\ \A c \in DOMAIN nodes : InitialSearchState(nodes[c])

FaceOffsets ==
  {<<1, 0, 0>>, <<-1, 0, 0>>, <<0, 1, 0>>, <<0, -1, 0>>, <<0, 0, 1>>, <<0, 0, -1>>}

SurroundingOffsets ==
  {<<dx, dy, dz>> : dx \in {-1, 0, 1}, dy \in {-1, 0, 1}, dz \in {-1, 0, 1}} \ {<<0, 0, 0>>}

\* the in-bounds walkable cells among the cells at the given offsets from c
WalkableAround(c, offsets) ==
  {d \in {<<c[1] + o[1], c[2] + o[2], c[3] + o[3], c[4]>> : o \in offsets} :
     d \in DOMAIN nodes /\ nodes[d].walkable}

\* C10: for a cell c without connections, neighbors(c, never) lists exactly
\* the in-bounds walkable cells among the 6 face-adjacent cells and
\* neighbors(c, always) exactly those among the 26 surrounding cells, each
\* once: 6 and 26 cells for the interior cell of an all-walkable grid.
C10_NeverAndAlwaysNeighborSets ==
  (lastOp = "neighbors" /\ nodes[cfg.start].connections = <<>>) =>
    /\ cfg.dm = DiagonalMovement.never =>
         /\ Range(result.path) = WalkableAround(cfg.start, FaceOffsets)
         /\ Len(result.path) = Cardinality(Range(result.path))
    /\ cfg.dm = DiagonalMovement.always =>
         /\ Range(result.path) = WalkableAround(cfg.start, SurroundingOffsets)
         /\ Len(result.path) = Cardinality(Range(result.path))
    /\ (cfg.start = <<1, 1, 1, NoGridId>> /\ \A c \in DOMAIN nodes : nodes[c].walkable) =>
         /\ cfg.dm = DiagonalMovement.never => Len(result.path) = 6
         /\ cfg.dm = DiagonalMovement.always => Len(result.path) = 26

C10_Witness ==
  /\ lastOp = "neighbors"
  /\ cfg.dm = DiagonalMovement.always
  /\ cfg.start = <<1, 1, 1, NoGridId>>
  /\ Len(result.path) = 25

\* the cell at the offset o from c
Shift(c, o) == <<c[1] + o[1], c[2] + o[2], c[3] + o[3], c[4]>>

\* the number of axes an offset moves along
Axes(o) == Abs(o[1]) + Abs(o[2]) + Abs(o[3])

EdgeOffsets == {o \in SurroundingOffsets : Axes(o) = 2}

CornerOffsets == {o \in SurroundingOffsets : Axes(o) = 3}

\* the offsets along k axes that lie between the node and the cell at offset o
Between(o, k) ==
  {p \in SurroundingOffsets : Axes(p) = k /\ \A i \in 1..3 : p[i] \in {0, o[i]}}

\* in bounds and walkable
IsWalkable(d) == d \in DOMAIN nodes /\ nodes[d].walkable

\* d is in the list neighbors() gave
Listed(d) == d \in Range(result.path)

Obstacles == {d \in DOMAIN nodes : ~nodes[d].walkable}

\* neighbors() was called on the centre of the 3x3x3 grid
CentreCall == lastOp = "neighbors" /\ cfg.start = <<1, 1, 1, NoGridId>>

\* the only obstacle of the grid is at the offset o from the node
OnlyObstacleAt(o) == Obstacles = {Shift(cfg.start, o)}

\* C11: under only_when_no_obstacle an edge-diagonal cell is listed iff it is
\* walkable and the two face cells between it and the node are walkable; a
\* corner-diagonal cell is listed iff it is walkable and the three face cells
\* and the three edge-diagonal cells between it and the node are listed.  For
\* the centre of a 3x3x3 grid, one blocked face cell leaves 17 neighbors and
\* one blocked edge-diagonal cell leaves 23.
C11_OnlyWhenNoObstacleGating ==
  (lastOp = "neighbors" /\ cfg.dm = DiagonalMovement.only_when_no_obstacle
     /\ nodes[cfg.start].connections = <<>>) =>
    /\ \A o \in EdgeOffsets :
         Listed(Shift(cfg.start, o)) <=>
           /\ IsWalkable(Shift(cfg.start, o))
           /\ \A p \in Between(o, 1) : IsWalkable(Shift(cfg.start, p))
    /\ \A o \in CornerOffsets :
         Listed(Shift(cfg.start, o)) <=>
           /\ IsWalkable(Shift(cfg.start, o))
           /\ \A p \in Between(o, 1) \cup Between(o, 2) : Listed(Shift(cfg.start, p))
    /\ \A o \in FaceOffsets : (CentreCall /\ OnlyObstacleAt(o)) => Len(result.path) = 17
    /\ \A o \in EdgeOffsets : (CentreCall /\ OnlyObstacleAt(o)) => Len(result.path) = 23

C11_Witness ==
  /\ CentreCall
  /\ cfg.dm = DiagonalMovement.only_when_no_obstacle
  /\ OnlyObstacleAt(<<0, -1, 0>>)
  /\ Len(result.path) = 17
  /\ ~Listed(<<2, 0, 2, NoGridId>>)

\* C12: under if_at_most_one_obstacle an edge-diagonal cell is listed iff it
\* is walkable and at least one of the two face cells between it and the node
\* is walkable; a corner-diagonal cell is listed iff it is walkable and at
\* least five of its six flags hold, the flags being: each of the three face
\* cells and of the three edge-diagonal cells between it and the node is listed.
C12_IfAtMostOneObstacleGating ==
  (lastOp = "neighbors" /\ cfg.dm = DiagonalMovement.if_at_most_one_obstacle
     /\ nodes[cfg.start].connections = <<>>) =>
    /\ \A o \in EdgeOffsets :
         Listed(Shift(cfg.start, o)) <=>
           /\ IsWalkable(Shift(cfg.start, o))
           /\ \E p \in Between(o, 1) : IsWalkable(Shift(cfg.start, p))
    /\ \A o \in CornerOffsets :
         Listed(Shift(cfg.start, o)) <=>
           /\ IsWalkable(Shift(cfg.start, o))
           /\ Cardinality({p \in Between(o, 1) \cup Between(o, 2) :
                             Listed(Shift(cfg.start, p))}) >= 5

C12_Witness ==
  /\ CentreCall
  /\ cfg.dm = DiagonalMovement.if_at_most_one_obstacle
  /\ Obstacles = {<<1, 0, 1, NoGridId>>, <<2, 1, 1, NoGridId>>}
  /\ IsWalkable(<<2, 0, 1, NoGridId>>) /\ ~Listed(<<2, 0, 1, NoGridId>>)
  /\ IsWalkable(<<2, 0, 2, NoGridId>>) /\ ~Listed(<<2, 0, 2, NoGridId>>)
  /\ Listed(<<0, 0, 2, NoGridId>>)

\* C13: under if_at_most_one_obstacle, for the interior cell of a grid whose
\* only obstacle is one of its six face-adjacent cells, the neighbors are the
\* 26 surrounding cells without that cell: 25 neighbors, each listed once.
C13_OneFaceObstacleRemovesOnlyItself ==
  (CentreCall /\ cfg.dm = DiagonalMovement.if_at_most_one_obstacle) =>
    \A o \in FaceOffsets :
      OnlyObstacleAt(o) =>
        /\ Range(result.path) =
             {Shift(cfg.start, p) : p \in SurroundingOffsets} \ {Shift(cfg.start, o)}
        /\ Len(result.path) = 25

C13_Witness ==
  /\ CentreCall
  /\ cfg.dm = DiagonalMovement.if_at_most_one_obstacle
  /\ OnlyObstacleAt(<<0, -1, 0>>)
  /\ Len(result.path) = 25
  /\ ~Listed(<<1, 0, 1, NoGridId>>)

\* C14: for coordinates outside the grid, negative ones included, inside and
\* walkable return False and node returns None; the neighbors of a cell,
\* boundary cells included, are cells of the grid next to it under every
\* policy, never a cell outside the grid or one reached by wrapping around.
C14_OutsideIsNotInsideNotWalkable ==
  /\ (lastOp = "probe" /\ result.path[1] \notin DOMAIN nodes) =>
       /\ result.inside = FALSE
       /\ result.walkable = FALSE
       /\ result.node = None
  /\ (lastOp = "probe" /\ result.path[1] \in DOMAIN nodes) =>
       /\ result.inside = TRUE
       /\ result.walkable = nodes[result.path[1]].walkable
       /\ result.node = nodes[result.path[1]]
  /\ (lastOp = "neighbors" /\ "of" \in DOMAIN result) =>
       \A i \in 1..Len(result.path) :
         /\ result.path[i] \in DOMAIN nodes
         /\ result.path[i] \in {Shift(result.of, o) : o \in SurroundingOffsets}

\* a probe at negative coordinates whose wrapped-around cell is walkable
C14_Witness ==
  /\ lastOp = "probe"
  /\ result.path[1] = <<-1, 0, -2, NoGridId>>
  /\ dims[NoGridId] = <<2, 2, 2>>
  /\ \A c \in DOMAIN nodes : nodes[c].walkable
  /\ result.walkable = FALSE
  /\ result.node = None

\* the lists of the matrix are not empty and have the same length at each
\* nesting level
Rectangular(matrix) ==
  /\ Len(matrix) > 0
  /\ \A x \in 1..Len(matrix) :
       /\ Len(matrix[x]) > 0
       /\ Len(matrix[x]) = Len(matrix[1])
       /\ \A y \in 1..Len(matrix[x]) :
            /\ Len(matrix[x][y]) > 0
            /\ Len(matrix[x][y]) = Len(matrix[1][1])

\* C17: constructing a grid from a matrix that is empty at some nesting level
\* or not rectangular raises ValueError and yields no grid.
C17_MalformedMatrixRaisesValueError ==
  (lastOp = "Grid" /\ ~Rectangular(cfg.matrix)) => result.kind = "ValueError"

\* the tuples of the open list that are not in the removed set and stand for n
ActiveTuples(H, n) ==
  {i \in 1..Len(H.open_list) :
     H.open_list[i] \notin H.removed_node_tuples /\ get_node(H.open_list[i]) = n}

C16_DecreaseKeyLeavesOneActiveEntry ==
  ("finderlike" \in DOMAIN result /\ result.finderlike) =>
    /\ \A n \in DOMAIN nodes : Cardinality(ActiveTuples(open_list, n)) <= 1
    /\ \A i, j \in 1..Len(result.popped) : result.popped[i] = result.popped[j] => i = j

\* consecutive voxels p, q of a line whose longest extent is along axis k
StepAlong(p, q, k) ==
  /\ Abs(q[k] - p[k]) = 1
  /\ \A i \in 1..3 : Abs(q[i] - p[i]) <= 1

\* C18: bresenham(a, b) has max(|dx|, |dy|, |dz|) + 1 voxels, the first a and
\* the last b; consecutive voxels differ by exactly 1 along the driving axis
\* (an axis of the largest extent) and by at most 1 along the others;
\* bresenham([0,0,0], [2,5,1]) is the list of the example.
C18_BresenhamOneVoxelPerDrivingStep ==
  lastOp = "bresenham" =>
    LET a == cfg.coords_a
        b == cfg.coords_b
        line == result.path
        longest == Max3(Abs(b[1] - a[1]), Abs(b[2] - a[2]), Abs(b[3] - a[3]))
    IN /\ Len(line) = longest + 1
       /\ line[1] = a
       /\ line[Len(line)] = b
       /\ \E k \in 1..3 :
            /\ Abs(b[k] - a[k]) = longest
            /\ \A i \in 1..(Len(line) - 1) : StepAlong(line[i], line[i + 1], k)
       /\ (a = <<0, 0, 0>> /\ b = <<2, 5, 1>>) =>
            line = <<<<0, 0, 0>>, <<0, 1, 0>>, <<1, 2, 0>>, <<1, 3, 1>>, <<2, 4, 1>>,
                     <<2, 5, 1>>>>

C18_Witness ==
  /\ lastOp = "bresenham"
  /\ cfg.coords_a = <<0, 1, 4>>
  /\ cfg.coords_b = <<0, 4, 1>>
  /\ result.path = <<<<0, 1, 4>>, <<0, 2, 3>>, <<0, 3, 2>>, <<0, 4, 1>>>>

RECURSIVE IsSubsequence(_, _)
\* the elements of s occur in l in the same order
IsSubsequence(s, l) ==
  IF s = <<>> THEN TRUE
  ELSE IF l = <<>> THEN FALSE
  ELSE IF s[1] = l[1] THEN IsSubsequence(Tail(s), Tail(l))
  ELSE IsSubsequence(s, Tail(l))

\* C19: raytrace(a, b) starts at a, ends at b and holds the voxels of
\* bresenham(a, b) in their order, so it is never shorter than bresenham(a, b).
C19_RaytraceContainsBresenham ==
  lastOp = "raytrace" =>
    /\ result.path[1] = cfg.coords_a
    /\ result.path[Len(result.path)] = cfg.coords_b
    /\ IsSubsequence(bresenham(cfg.coords_a, cfg.coords_b), result.path)
    /\ Len(result.path) >= Len(bresenham(cfg.coords_a, cfg.coords_b))

\* raytrace([0,0,0], [2,5,1]): 9 voxels against the 6 of bresenham
C19_Witness ==
  /\ lastOp = "raytrace"
  /\ cfg.coords_a = <<0, 0, 0>>
  /\ cfg.coords_b = <<2, 5, 1>>
  /\ Len(result.path) = 9
  /\ Len(bresenham(cfg.coords_a, cfg.coords_b)) = 6

\* v is a voxel: three integers
IsVoxel(v) == Len(v) = 3 /\ \A i \in 1..3 : v[i] \in Int

\* C20: for a list of at least 2 waypoints, each differing from the next,
\* expand_path returns a flat list of
\* voxels from the first waypoint to the last, consecutive voxels distinct
\* and 26-adjacent (so a shared waypoint occurs once); for a shorter list it
\* returns the empty list.
C20_ExpandPathIsDenseAndFlat ==
  (lastOp = "expand_path" /\ \A i \in 1..(Len(cfg.path) - 1) : cfg.path[i] # cfg.path[i + 1]) =>
    IF Len(cfg.path) < 2 THEN result.path = <<>>
    ELSE /\ \A i \in 1..Len(result.path) : IsVoxel(result.path[i])
         /\ result.path[1] = cfg.path[1]
         /\ result.path[Len(result.path)] = cfg.path[Len(cfg.path)]
         /\ \A i \in 1..(Len(result.path) - 1) :
              /\ result.path[i] # result.path[i + 1]
              /\ \A k \in 1..3 : Abs(result.path[i + 1][k] - result.path[i][k]) <= 1

\* the interpolated line of the call's mode from voxel a to voxel b
Interpolated(a, b) == IF cfg.use_raytrace THEN raytrace(a, b) ELSE bresenham(a, b)

\* C21: on a path of distinct voxels smoothen_path keeps an intermediate
\* waypoint only where the line from
\* the voxel kept before it to the waypoint after it is blocked; on a fully
\* walkable grid only the first and the last waypoint remain.
C21_SmoothenKeepsOnlyBlockedWaypoints ==
  (/\ lastOp = "smoothen_path"
   /\ \A i, j \in 1..Len(cfg.path) : cfg.path[i] = cfg.path[j] => i = j) =>
    /\ (\A c \in DOMAIN nodes : nodes[c].walkable) =>
         result.path = <<cfg.path[1], cfg.path[Len(cfg.path)]>>
    /\ \A j \in 2..(Len(result.path) - 1) :
         \E i \in 2..(Len(cfg.path) - 1) :
           /\ cfg.path[i] = result.path[j]
           /\ LineBlocked(nodes, dims, Interpolated(result.path[j - 1], cfg.path[i + 1]))

\* C22: for a path of at least 2 voxels, in both modes, the output of
\* smoothen_path begins with path[0], ends with path[-1] and is a
\* subsequence of the path.
C22_SmoothenedIsSubsequence ==
  (lastOp = "smoothen_path" /\ Len(cfg.path) >= 2) =>
    /\ result.path[1] = cfg.path[1]
    /\ result.path[Len(result.path)] = cfg.path[Len(cfg.path)]
    /\ IsSubsequence(result.path, cfg.path)

\* raytrace mode on a path of 4 voxels whose line from the first to the third
\* passes an obstacle: the output is shorter than the path
C22_Witness ==
  /\ lastOp = "smoothen_path"
  /\ cfg.use_raytrace
  /\ ~nodes[<<1, 0, 0, NoGridId>>].walkable
  /\ cfg.path = <<<<0, 0, 0>>, <<0, 1, 0>>, <<2, 0, 0>>, <<2, 1, 0>>>>
  /\ Len(result.path) < 4

\* C23: line_of_sight(grid, a, a) is true; for distinct a and b it is false
\* when a voxel strictly between them on the line of raytrace is not walkable
\* and true when every voxel of the line is walkable.
C23_LineOfSightFollowsTheLine ==
  lastOp = "line_of_sight" =>
    LET a == cfg.path[1]
        b == cfg.path[Len(cfg.path)]
        line == raytrace(a, b)
    IN /\ a = b => result.value
       /\ (a # b /\ \E j \in 2..(Len(line) - 1) : ~nodes[At(line[j], NoGridId)].walkable) =>
            ~result.value
       /\ (a # b /\ \A j \in 1..Len(line) : nodes[At(line[j], NoGridId)].walkable) =>
            result.value

\* from (0,0,0) to (2,1,0) the line of raytrace passes (1,1,0), which the
\* line of bresenham does not: an obstacle there blocks the sight
C23_Witness ==
  /\ lastOp = "line_of_sight"
  /\ cfg.path[1] = <<0, 0, 0>>
  /\ cfg.path[Len(cfg.path)] = <<2, 1, 0>>
  /\ ~nodes[<<1, 1, 0, NoGridId>>].walkable
  /\ ~result.value

\* C24: in a search over the world, a step of the returned path between two
\* grids goes to a connection of the node it leaves, and a step inside a grid
\* goes to a lattice neighbor under the policy; the path from grid 0 to grid 1
\* of the two-grid world passes (2,2,2,0) -> (2,2,2,1).
C24_WorldPathCrossesAtConnections ==
  (pc = "returned" /\ lastOp = "step" /\ cfg.world /\ result.path # <<>>) =>
    /\ \A i \in 1..(Len(result.path) - 1) :
         LET u == result.path[i]
             v == result.path[i + 1]
         IN IF u[4] # v[4]
            THEN v \in Range(nodes[u].connections)
            ELSE /\ v \in Range(neighbors(nodes, dims, u, cfg.dm))
                 /\ \A k \in 1..3 : Abs(v[k] - u[k]) <= 1
    /\ (cfg.start[4] = 0 /\ cfg.end[4] = 1) =>
         \E i \in 1..(Len(result.path) - 1) :
           /\ result.path[i] = <<2, 2, 2, 0>>
           /\ result.path[i + 1] = <<2, 2, 2, 1>>

\* AStarFinder on the world of test_connect: 10 nodes, 5 in each grid
C24_Witness ==
  /\ pc = "returned" /\ lastOp = "step"
  /\ cfg.world
  /\ cfg.finder = "AStarFinder"
  /\ cfg.dm = DiagonalMovement.never
  /\ Len(result.path) = 10
  /\ result.path[5] = <<2, 2, 2, 0>>
  /\ result.path[6] = <<2, 2, 2, 1>>

RECURSIVE ConnectedTo(_, _)
\* the nodes a was connected to by the calls, in the order of the calls
ConnectedTo(calls, a) ==
  IF calls = <<>> THEN <<>>
  ELSE (IF calls[1][1] = a THEN <<calls[1][2]>> ELSE <<>>) \o ConnectedTo(Tail(calls), a)

\* C25: connect(a, b) appends b to a.connections and changes nothing else:
\* every node's connections are the nodes it was connected to, in order, and
\* its other fields are as constructed.  After connect(a, b) alone b is a
\* neighbor of a and a is not a neighbor of b; after connect(a, b) and
\* connect(b, a) each is a neighbor of the other.
C25_ConnectIsOneWay ==
  "calls" \in DOMAIN cfg =>
    /\ \A n \in DOMAIN nodes :
         /\ nodes[n].connections = ConnectedTo(cfg.calls, n)
         /\ [nodes[n] EXCEPT !.connections = <<>>] = UnconnectedNodes[n]
    /\ (lastOp = "neighbors" /\ Len(cfg.calls) = 1) =>
         /\ result.of = cfg.calls[1][1] => cfg.calls[1][2] \in Range(result.path)
         /\ result.of = cfg.calls[1][2] => cfg.calls[1][1] \notin Range(result.path)
    /\ (lastOp = "neighbors" /\ Len(cfg.calls) = 2 /\ cfg.calls[2] = Reverse(cfg.calls[1])) =>
         /\ result.of = cfg.calls[1][1] => cfg.calls[1][2] \in Range(result.path)
         /\ result.of = cfg.calls[1][2] => cfg.calls[1][1] \in Range(result.path)

\* after grid0.node(2,2,2).connect(grid1.node(2,2,2)) alone, the neighbors of
\* the node of grid 1 are its 3 lattice neighbors
C25_Witness ==
  /\ lastOp = "neighbors"
  /\ cfg.calls = <<<<<<2, 2, 2, 0>>, <<2, 2, 2, 1>>>>>>
  /\ result.of = <<2, 2, 2, 1>>
  /\ result.dm = DiagonalMovement.never
  /\ Len(result.path) = 3
  /\ nodes[<<2, 2, 2, 0>>].connections = <<<<2, 2, 2, 1>>>>

\* C26: a non-empty path returned by BiAStarFinder starts at start, ends at
\* end, each of its steps (u, v), the junction of the two halves included, has
\* v in neighbors(u, policy), and no node occurs twice in it.
C26_BiPathIsOneRoute ==
  (pc = "returned" /\ lastOp = "step" /\ cfg.finder = "BiAStarFinder" /\ result.path # <<>>) =>
    /\ result.path[1] = cfg.start
    /\ result.path[Len(result.path)] = cfg.end
    /\ \A i \in 1..(Len(result.path) - 1) :
         result.path[i + 1] \in Range(neighbors(nodes, dims, result.path[i], cfg.dm))
    /\ \A i \in 1..Len(result.path) : \A j \in 1..Len(result.path) :
         result.path[i] = result.path[j] => i = j

\* C27: on a freshly constructed MinimumSpanningTree finder tree(grid, start)
\* returns a list that begins with start and holds every walkable node
\* reachable from start exactly once: 27 nodes on the all-walkable 3x3x3 grid.
C27_TreeOnFreshFinder ==
  (lastOp = "tree" /\ pc \in {"returned", "raised"} /\ searchNo = 0) =>
    /\ result.kind = "tree"
    /\ result.path # <<>>
    /\ result.path[1] = cfg.start
    /\ Range(result.path) = Reachable(nodes, dims, cfg.start, cfg.dm)
    /\ \A i, j \in 1..Len(result.path) : result.path[i] = result.path[j] => i = j
    /\ dims[NoGridId] = <<3, 3, 3>> => Len(result.path) = 27

\* the end is out of reach of the start and neither budget is set
IDAUnreachableUnlimited ==
  /\ cfg.finder = "IDAStarFinder"
  /\ cfg.max_runs = MAX_RUNS /\ cfg.time_limit = TIME_LIMIT
  /\ cfg.end \notin Reachable(nodes, dims, cfg.start, cfg.dm)

\* max_runs is set and time_limit is not
IDAFiniteRuns ==
  cfg.finder = "IDAStarFinder" /\ cfg.max_runs # MAX_RUNS /\ cfg.time_limit = TIME_LIMIT

\* C28: IDA* has no exit for an end out of reach: with both budgets unlimited
\* find_path on such an end is never left and its cutoff never decreases;
\* with a finite max_runs find_path is always left, and it is left with a
\* path or with ExecutionRunsException.
C28_IDAStarTermination ==
  /\ [](IDAUnreachableUnlimited => pc \in {"idle", "running"})
  /\ [][IDAUnreachableUnlimited => ida'.cutoff >= ida.cutoff]_vars
  /\ [](IDAFiniteRuns /\ pc \notin {"idle", "running"} =>
          /\ pc \in {"returned", "raised"}
          /\ result.kind \in {"path", "ExecutionRunsException"})
  /\ (IDAFiniteRuns /\ pc = "running") ~> (pc \in {"returned", "raised"})

\* a DijkstraFinder search has been started
DijkstraSearch == cfg.finder = "DijkstraFinder" /\ lastOp \in {"find_path", "step"}

\* C29: during a DijkstraFinder search every opened node has h = 0 and
\* f = g, and the nodes are expanded in nondecreasing order of g: the node
\* an iteration pops has a g no greater than that of the node the next
\* iteration pops.
C29_DijkstraIsUniformCost ==
  /\ [](DijkstraSearch =>
          \A n \in DOMAIN nodes :
            nodes[n].opened # 0 => nodes[n].h = 0 /\ nodes[n].f = nodes[n].g)
  /\ [][(/\ DijkstraSearch /\ pc = "running" /\ pc' = "running"
         /\ open_list # <<>> /\ open_list' # <<>>) =>
          nodes[nsmallest1(nodes, open_list)].g
            <= nodes'[nsmallest1(nodes', open_list')].g]_vars

\* C30: at every point of an A*, Dijkstra or BestFirst search start.g = 0
\* and every opened node n other than start has
\* n.g = n.parent.g + calc_cost(n.parent, n, weighted).
C30_GIsAccumulatedCost ==
  (cfg.finder \in {"AStarFinder", "DijkstraFinder", "BestFirst"}
     /\ lastOp \in {"find_path", "step"}) =>
    /\ nodes[cfg.start].g = 0
    /\ \A n \in DOMAIN nodes :
         (nodes[n].opened # 0 /\ n # cfg.start) =>
           /\ nodes[n].parent # None
           /\ nodes[n].g = nodes[nodes[n].parent].g
                             + calc_cost(nodes, nodes[n].parent, n, Weighted(cfg.finder))

\* the node the parent links lead to from n
RootOf(N, n) ==
  LET chain == ParentChain(N, n, Cardinality(DOMAIN N))
  IN chain[Len(chain)]

\* C31: at every point of a search started on a cleaned grid the parent links
\* from any node reach a parent-less node in finitely many steps, and from a
\* node that has a parent that node is start (or end, for nodes opened by the
\* backward frontier of BiA*): the parent links form no cycle.
C31_ParentLinksFormATree ==
  lastOp \in {"find_path", "step"} =>
    \A n \in DOMAIN nodes :
      /\ BacktraceEnds(nodes, n)
      /\ nodes[n].parent # None =>
           \/ RootOf(nodes, n) = cfg.start
           \/ /\ cfg.finder = "BiAStarFinder"
              /\ nodes[n].opened = BY_END
              /\ RootOf(nodes, n) = cfg.end

\* a BiA* search on the corridor fixture in which a node of the backward
\* frontier is three parent links away from end
C31_Witness ==
  /\ lastOp = "step" /\ cfg.finder = "BiAStarFinder"
  /\ cfg.end = <<4, 4, 0, NoGridId>>
  /\ \E n \in DOMAIN nodes :
       /\ nodes[n].opened = BY_END
       /\ Len(ParentChain(nodes, n, Cardinality(DOMAIN nodes))) = 4
       /\ RootOf(nodes, n) = cfg.end
  /\ \E n \in DOMAIN nodes :
       /\ nodes[n].opened = BY_START
       /\ Len(ParentChain(nodes, n, Cardinality(DOMAIN nodes))) >= 3
       /\ RootOf(nodes, n) = cfg.start

\* the search fields of a node that process_node may write
Candidate(n) == <<n.g, n.h, n.f, n.parent, n.opened>>

\* C32: process_node changes the candidate only when it is unopened or the
\* tentative cost is strictly smaller than its g: then g is the tentative
\* cost, f = g + h and parent is the expanding node; otherwise the candidate
\* and the open list are unchanged.  No other node is changed, and the g of
\* an opened node never increases during a search.
C32_ProcessNodeChangesOnlyOnImprovement ==
  /\ [](lastOp = "process_node" =>
          LET before == result.N[result.node]
              after == nodes[result.node]
              ng == calc_cost(result.N, result.parent, result.node, Weighted(cfg.finder))
          IN /\ \A n \in DOMAIN nodes : n # result.node => nodes[n] = result.N[n]
             /\ IF before.opened = 0 \/ ng < before.g
                THEN /\ after.g = ng
                     /\ after.f = after.g + after.h
                     /\ after.parent = result.parent
                     /\ after.opened # 0
                     /\ result.node \in Range(open_list)
                ELSE /\ after = before
                     /\ open_list = result.ol)
  /\ [][\A n \in DOMAIN nodes :
          (pc = "running" /\ nodes[n].opened # 0) => nodes'[n].g <= nodes[n].g]_vars

\* process_node on an opened candidate whose tentative cost is smaller: its
\* g goes down and its parent becomes the expanding node
C32_Witness ==
  /\ lastOp = "process_node"
  /\ result.N[result.node].opened # 0
  /\ nodes[result.node].g < result.N[result.node].g
  /\ nodes[result.node].parent = result.parent
  /\ result.N[result.node].parent # result.parent

-----------------------------------------------------------------------------
\* two nodes are lattice neighbors under the policy or joined by a declared
\* connection
Adjacent(N, D, a, b, dm) == b \in Range(neighbors(N, D, a, dm))

-----------------------------------------------------------------------------
RECURSIVE StepsFrom(_, _, _, _, _, _, _)
\* the least number of neighbors() steps from the frontier, k steps from the
\* start, to end; -1 when no chain of steps leads there
StepsFrom(N, D, dm, seen, frontier, end, k) ==
  IF end \in frontier THEN k
  ELSE IF frontier = {} THEN 0 - 1
  ELSE Let(UNION {Range(neighbors(N, D, u, dm)) : u \in frontier} \ seen,
           LAMBDA new : StepsFrom(N, D, dm, seen \cup new, new, end, k + 1))

MinSteps(N, D, start, end, dm) == StepsFrom(N, D, dm, {start}, {start}, end, 0)

BreadthFirstSearch == cfg.finder = "BreadthFirstFinder" /\ pc = "running"

\* C34: a path BreadthFirstFinder returns has the least number of steps that
\* neighbors() allows from start to end under the policy, whatever the weights
\* of the cells (and it returns one when the budgets are unlimited and such
\* steps exist); during a search the queue never holds a node twice nor a
\* closed node, and a node that enters the queue was not opened before
C34_BreadthFirstFewestStepsAndEnqueuesOnce ==
  /\ [](cfg.finder = "BreadthFirstFinder" /\ JustFinished /\ result.kind = "path" =>
          LET least == MinSteps(nodes, dims, cfg.start, cfg.end, cfg.dm)
          IN /\ result.path # <<>> => Len(result.path) - 1 = least
             /\ Unlimited /\ least >= 0 => result.path # <<>>)
  /\ [](BreadthFirstSearch =>
          /\ \A i, j \in 1..Len(open_list) : open_list[i] = open_list[j] => i = j
          /\ \A n \in Range(open_list) : nodes[n].opened # 0 /\ ~nodes[n].closed)
  /\ [][BreadthFirstSearch =>
          \A n \in Range(open_list') \ Range(open_list) : nodes[n].opened = 0]_vars

\* a returned path over heavy cells with the fewest steps, where a path of
\* more steps is cheaper
C34_Witness ==
  /\ cfg.finder = "BreadthFirstFinder"
  /\ JustFinished
  /\ result.kind = "path"
  /\ Len(result.path) >= 3
  /\ Len(result.path) - 1 = MinSteps(nodes, dims, cfg.start, cfg.end, cfg.dm)
  /\ PathCost(nodes, result.path) > Cheapest(nodes, dims, cfg.start, cfg.dm)[cfg.end]

-----------------------------------------------------------------------------
ClosedNodes(N) == {n \in DOMAIN N : N[n].closed}

\* the walkable cells that chains of neighbors() lead to from start, start
\* itself among them when it is walkable
WalkableReachable ==
  {c \in Reachable(nodes, dims, cfg.start, cfg.dm) : nodes[c].walkable}

ExpandSearch == cfg.finder \in ExpandFinders /\ lastOp \in {"find_path", "step"}

\* every iteration closes one node that was not closed, and what is closed
\* keeps its g, f and parent
ClosedOnceAndFrozen ==
  /\ [](ExpandSearch /\ result.kind \in {"none", "path"} =>
          runs = Cardinality(ClosedNodes(nodes)))
  /\ [][ExpandSearch /\ pc = "running" =>
          \A n \in ClosedNodes(nodes) :
            /\ nodes'[n].closed
            /\ nodes'[n].g = nodes[n].g
            /\ nodes'[n].f = nodes[n].f
            /\ nodes'[n].parent = nodes[n].parent]_vars

\* C35: in A*, Dijkstra, BestFirst, BreadthFirst and MinimumSpanningTree
\* searches a node is closed at most once and a closed node keeps its g, f and
\* parent; and the iterations of a search never number more than the walkable
\* cells reachable from start
C35_IterationsBoundedByReachableWalkable ==
  /\ ClosedOnceAndFrozen
  /\ [](ExpandSearch => runs <= Cardinality(WalkableReachable))

-----------------------------------------------------------------------------
\* C36: whatever the finder, find_path(start, start, grid) on a cleaned grid,
\* with unlimited budgets, returns the path of the one node start and does
\* not raise
C36_StartToStartIsOneNodePath ==
  (JustFinished /\ Unlimited /\ cfg.start = cfg.end) =>
    /\ result.kind = "path"
    /\ result.path = <<cfg.start>>

-----------------------------------------------------------------------------
\* C37: on a grid without connections, under every policy, for walkable cells
\* a and b: b is among neighbors(a) exactly when a is among neighbors(b)
C37_NeighborsAreSymmetric ==
  (lastOp = "neighbors" /\ nodes[cfg.start].walkable) =>
    \A b \in DOMAIN nodes :
      nodes[b].walkable =>
        (b \in Range(result.path) <=> cfg.start \in Range(neighbors(nodes, dims, b, cfg.dm)))

\* a corner diagonal taken both ways past one obstacle, on a cell next to both
\* ends, under if_at_most_one_obstacle
C37_Witness ==
  /\ lastOp = "neighbors"
  /\ cfg.dm = DiagonalMovement.if_at_most_one_obstacle
  /\ cfg.start = <<0, 0, 0, NoGridId>>
  /\ DOMAIN nodes = CellsOf(SymmetryDims, NoGridId)
  /\ ~nodes[<<1, 1, 0, NoGridId>>].walkable
  /\ <<1, 1, 1, NoGridId>> \in Range(result.path)
  /\ cfg.start \in Range(neighbors(nodes, dims, <<1, 1, 1, NoGridId>>, cfg.dm))

-----------------------------------------------------------------------------
\* len(open_list) of a SimpleHeap: the removed tuples still in the list count
HeapLen(H) == Len(H.open_list)

\* the heap is used as the finders' code uses it: a node is pushed once, when
\* it is opened, and afterwards only re-keyed to a lower f by remove_node and
\* push_node
FinderLike == result.finderlike

-----------------------------------------------------------------------------
\* a search of the finder fk has returned, its budgets unlimited
ReturnedBy(fk) ==
  cfg.finder = fk /\ JustFinished /\ Unlimited /\ result.kind = "path"

EndReachable == cfg.end \in Reachable(nodes, dims, cfg.start, cfg.dm)

\* AStarFinder returns a non-empty path exactly when chains of neighbors()
\* lead from start to end
AStarPathIffReachable ==
  ReturnedBy("AStarFinder") => (result.path # <<>> <=> EndReachable)

\* C39: BiAStarFinder returns a non-empty path exactly when end is reachable
\* from start under the policy, which is exactly when AStarFinder returns one
C39_BiAStarPathIffReachable ==
  /\ AStarPathIffReachable
  /\ cfg.finder = "BiAStarFinder" /\ JustFinished /\ Unlimited =>
       /\ result.kind = "path"
       /\ result.path # <<>> <=> EndReachable

====
